---- MODULE Spec2Model ----
(***************************************************************************)
(* Article filter / search engine of the static site: the offline index    *)
(* builders, the framed gzip codec shared by both artifacts, and the       *)
(* online engines behind the host entry points.                            *)
(*                                                                         *)
(* Strings are sequences of Unicode code points; byte strings (artifacts,  *)
(* serialized payloads) are sequences of numbers in 0..255.                *)
(***************************************************************************)
EXTENDS Integers, Sequences, FiniteSets, TLC

VARIABLES
    articles,      \* the articles the indexer has handed to FilterBuilder (FilterBuilder.articles)
    sb_articles,   \* SearchBuilder.articles (directory pages are not added)
    filter_file,   \* bytes of filter_index.bin, <<>> while not written
    search_file,   \* bytes of search_index.bin, <<>> while not written
    INDEX,         \* the OnceCell: <<>> while unset, <<ArticleIndex>> once set
    overflow_checks, \* whether the build panics on integer overflow (debug) or wraps (release)
    call,          \* the last host call: its entry point and arguments
    ret,           \* what that call returned to the host
    sync,          \* INDEX's synchronisation: the OnceCell's state and the Mutex's
    threads        \* where each thread of a multi-threaded host stands in its call

vars ==
    <<articles, sb_articles, filter_file, search_file, INDEX, overflow_checks, call, ret,
      sync, threads>>

----------------------------------------------------------------------------
(* Bounds of the model *)

\* longest sequence of articles handed to the builders
MaxArticles == 3
\* width of usize in bits (the engines are built for a 32-bit target; the
\* arithmetic of the pagination only uses +, -, *, / and comparisons)
UsizeBits == 4

RECURSIVE Pow2(_)
Pow2(n) == IF n = 0 THEN 1 ELSE 2 * Pow2(n - 1)

UsizeModulus == Pow2(UsizeBits)
UsizeMax == UsizeModulus - 1

----------------------------------------------------------------------------
(* Sequences and strings *)

Min(a, b) == IF a <= b THEN a ELSE b
Max(a, b) == IF a >= b THEN a ELSE b

Range(s) == {s[i] : i \in DOMAIN s}

RECURSIVE Concat(_)
Concat(ss) == IF ss = <<>> THEN <<>> ELSE Head(ss) \o Concat(Tail(ss))

\* s[from..to) with 0-based byte/char offsets, as a Rust slice
Slice(s, from, to) == SubSeq(s, from + 1, to)

\* lexicographic order of two sequences of numbers (String::cmp, Ord for tuples)
RECURSIVE SeqLess(_, _)
SeqLess(a, b) ==
    IF b = <<>> THEN FALSE
    ELSE IF a = <<>> THEN TRUE
    ELSE IF Head(a) # Head(b) THEN Head(a) < Head(b)
    ELSE SeqLess(Tail(a), Tail(b))

\* the sequences without repetition over a set, up to a length
RECURSIVE InjSeqs(_, _)
InjSeqs(S, n) ==
    IF n = 0 THEN {<<>>}
    ELSE LET shorter == InjSeqs(S, n - 1)
         IN shorter \cup {Append(s, x) : s \in {t \in shorter : Len(t) = n - 1}, x \in S}

\* every order in which the elements of a finite set can be enumerated
\* (the iteration order of a HashSet / HashMap is unspecified)
RECURSIVE Orders(_)
Orders(S) ==
    IF S = {} THEN {<<>>}
    ELSE UNION {{<<x>> \o o : o \in Orders(S \ {x})} : x \in S}

\* characters used by the model
ChDigit(d) == 48 + d
ChDash == 45
ChColon == 58
ChComma == 44
ChT == 84
ChZ == 90

\* UTF-8 encoding of one code point
Utf8(c) ==
    IF c < 128 THEN <<c>>
    ELSE IF c < 2048 THEN <<192 + (c \div 64), 128 + (c % 64)>>
    ELSE IF c < 65536
    THEN <<224 + (c \div 4096), 128 + ((c \div 64) % 64), 128 + (c % 64)>>
    ELSE <<240 + (c \div 262144), 128 + ((c \div 4096) % 64), 128 + ((c \div 64) % 64),
           128 + (c % 64)>>

RECURSIVE Utf8Str(_)
Utf8Str(s) == IF s = <<>> THEN <<>> ELSE Utf8(Head(s)) \o Utf8Str(Tail(s))

IsCont(b) == b >= 128 /\ b < 192

\* the length of the character a lead byte announces, 0 for no lead byte
Utf8Width(b0) ==
    IF b0 < 128 THEN 1
    ELSE IF b0 >= 194 /\ b0 < 224 THEN 2
    ELSE IF b0 >= 224 /\ b0 < 240 THEN 3
    ELSE IF b0 >= 240 /\ b0 < 245 THEN 4
    ELSE 0

\* the code point of the character that starts at byte i
Utf8CodePoint(b, i) ==
    LET n == Utf8Width(b[i])
    IN IF n = 1 THEN b[i]
       ELSE IF n = 2 THEN (b[i] - 192) * 64 + (b[i + 1] - 128)
       ELSE IF n = 3 THEN (b[i] - 224) * 4096 + (b[i + 1] - 128) * 64 + (b[i + 2] - 128)
       ELSE (b[i] - 240) * 262144 + (b[i + 1] - 128) * 4096 + (b[i + 2] - 128) * 64
            + (b[i + 3] - 128)

\* the code points of the characters that start in b[lo..hi], by halves
RECURSIVE Utf8CodePoints(_, _, _)
Utf8CodePoints(b, lo, hi) ==
    IF lo > hi THEN <<>>
    ELSE IF lo = hi THEN (IF IsCont(b[lo]) THEN <<>> ELSE <<Utf8CodePoint(b, lo)>>)
    ELSE LET mid == (lo + hi) \div 2
         IN Utf8CodePoints(b, lo, mid) \o Utf8CodePoints(b, mid + 1, hi)

\* decoding of a whole UTF-8 byte string (String::from_utf8): [ok, val]. Every
\* byte that is no continuation byte must lead a well-formed character that
\* the next such byte, or the end, follows at once.
FromUtf8(b) ==
    LET starts == {i \in DOMAIN b : ~IsCont(b[i])}
        WellFormed(i) ==
            LET n == Utf8Width(b[i])
            IN /\ n # 0
               /\ i + n - 1 <= Len(b)
               /\ \A k \in (i + 1)..(i + n - 1) : IsCont(b[k])
               /\ i + n <= Len(b) => ~IsCont(b[i + n])
               /\ n = 3 => Utf8CodePoint(b, i) >= 2048
                           /\ ~(Utf8CodePoint(b, i) >= 55296 /\ Utf8CodePoint(b, i) <= 57343)
               /\ n = 4 => Utf8CodePoint(b, i) >= 65536 /\ Utf8CodePoint(b, i) <= 1114111
    IN IF (b # <<>> /\ IsCont(b[1])) \/ \E i \in starts : ~WellFormed(i)
       THEN [ok |-> FALSE, val |-> <<>>]
       ELSE [ok |-> TRUE, val |-> Utf8CodePoints(b, 1, Len(b))]

----------------------------------------------------------------------------
(* Dates: chrono::DateTime<Utc>, kept as (year, month, day, second of day) *)

Date(y, m, d, s) == [y |-> y, m |-> m, d |-> d, s |-> s]

DateKey(t) == <<t.y, t.m, t.d, t.s>>

\* DateTime::cmp: the order of the instants
DateLess(a, b) == SeqLess(DateKey(a), DateKey(b))
DateLeq(a, b) == ~DateLess(b, a)

IsLeap(y) == (y % 4 = 0 /\ y % 100 # 0) \/ y % 400 = 0

DaysInMonth(y, m) ==
    IF m = 2 THEN (IF IsLeap(y) THEN 29 ELSE 28)
    ELSE IF m \in {4, 6, 9, 11} THEN 30 ELSE 31

Digits2(n) == <<ChDigit((n \div 10) % 10), ChDigit(n % 10)>>
Digits4(n) == <<ChDigit((n \div 1000) % 10), ChDigit((n \div 100) % 10)>> \o Digits2(n)

\* the RFC 3339 text of a UTC instant, "YYYY-MM-DDTHH:MM:SSZ"
FormatRfc3339(t) ==
    Digits4(t.y) \o <<ChDash>> \o Digits2(t.m) \o <<ChDash>> \o Digits2(t.d)
    \o <<ChT>> \o Digits2(t.s \div 3600) \o <<ChColon>> \o Digits2((t.s \div 60) % 60)
    \o <<ChColon>> \o Digits2(t.s % 60) \o <<ChZ>>

IsDigitCh(c) == c >= 48 /\ c <= 57

\* the number written by the digits s[from+1 .. from+n]
RECURSIVE Num(_, _, _)
Num(s, from, n) ==
    IF n = 0 THEN 0 ELSE Num(s, from, n - 1) * 10 + (s[from + n] - 48)

NoDate == Date(0, 0, 0, 0)

\* DateTime::parse_from_rfc3339 on texts of the shape the engine builds
\* ("<side>T00:00:00Z"): any other shape, or a field out of range, is an error
ParseRfc3339(s) ==
    IF Len(s) # 20
       \/ \E i \in {1, 2, 3, 4, 6, 7, 9, 10, 12, 13, 15, 16, 18, 19} : ~IsDigitCh(s[i])
       \/ s[5] # ChDash \/ s[8] # ChDash \/ s[11] # ChT
       \/ s[14] # ChColon \/ s[17] # ChColon \/ s[20] # ChZ
    THEN [ok |-> FALSE, val |-> NoDate]
    ELSE LET y  == Num(s, 0, 4)
             m  == Num(s, 5, 2)
             d  == Num(s, 8, 2)
             hh == Num(s, 11, 2)
             mm == Num(s, 14, 2)
             ss == Num(s, 17, 2)
         IN IF m < 1 \/ m > 12 \/ d < 1 \/ d > DaysInMonth(y, m)
               \/ hh > 23 \/ mm > 59 \/ ss > 59
            THEN [ok |-> FALSE, val |-> NoDate]
            ELSE [ok |-> TRUE, val |-> Date(y, m, d, hh * 3600 + mm * 60 + ss)]

----------------------------------------------------------------------------
(* Binary serialization: bincode, standard configuration (variable-length *)
(* integers, length-prefixed strings and collections, fields in order)    *)

\* an unsigned integer below 2^16
EncVarint(u) == IF u < 251 THEN <<u>> ELSE <<251, u % 256, u \div 256>>

\* a signed integer (zigzag)
EncZigzag(i) == EncVarint(IF i >= 0 THEN 2 * i ELSE -2 * i - 1)

EncString(s) == LET b == Utf8Str(s) IN EncVarint(Len(b)) \o b

RECURSIVE EncStrings(_)
EncStrings(ss) == IF ss = <<>> THEN <<>> ELSE EncString(Head(ss)) \o EncStrings(Tail(ss))

RECURSIVE EncUsizes(_)
EncUsizes(us) == IF us = <<>> THEN <<>> ELSE EncVarint(Head(us)) \o EncUsizes(Tail(us))

\* a decoder reads `b` from offset p (0-based) and answers [ok, val, pos]
DecFail(p) == [ok |-> FALSE, val |-> <<>>, pos |-> p]
DecOk(v, p) == [ok |-> TRUE, val |-> v, pos |-> p]

DecVarint(b, p) ==
    IF p >= Len(b) THEN DecFail(p)
    ELSE IF b[p + 1] < 251 THEN DecOk(b[p + 1], p + 1)
    ELSE IF b[p + 1] = 251 /\ p + 3 <= Len(b) THEN DecOk(b[p + 2] + 256 * b[p + 3], p + 3)
    ELSE DecFail(p)

ZigzagOf(u) ==
    IF ~u.ok THEN u
    ELSE DecOk(IF u.val % 2 = 0 THEN u.val \div 2 ELSE -((u.val + 1) \div 2), u.pos)

DecZigzag(b, p) == ZigzagOf(DecVarint(b, p))

\* the text of the n.val bytes after the length n
StringOf(n, s) == IF s.ok THEN DecOk(s.val, n.pos + n.val) ELSE DecFail(n.pos)

StringAfter(b, n) ==
    IF ~n.ok \/ n.pos + n.val > Len(b) THEN DecFail(n.pos)
    ELSE StringOf(n, FromUtf8(Slice(b, n.pos, n.pos + n.val)))

DecString(b, p) == StringAfter(b, DecVarint(b, p))

DateOf(s, t) == IF t.ok THEN DecOk(t.val, s.pos) ELSE DecFail(s.pos)

DateOfText(s) == IF ~s.ok THEN s ELSE DateOf(s, ParseRfc3339(s.val))

\* DateTime<Utc> travels as its RFC 3339 text
EncDate(t) == EncString(FormatRfc3339(t))

DecDate(b, p) == DateOfText(DecString(b, p))

\* The shapes Deserialize is derived for.  The format carries no field names,
\* tags or presence marks: the reader is driven by the shape alone
TUsize == [k |-> "usize"]
TI32 == [k |-> "i32"]
TString == [k |-> "string"]
TDate == [k |-> "date"]
TOption(T) == [k |-> "option", of |-> T]
TVec(T) == [k |-> "vec", of |-> T]
THashSet(T) == [k |-> "set", of |-> T]
\* a struct: its fields <<name, shape>> in declaration order
TStruct(fields) == [k |-> "struct", fields |-> fields]
THashMap(K, V) == [k |-> "map", of |-> TStruct(<<<<"key", K>>, <<"value", V>>>>)]

\* a map built from entries inserted in order (a later entry replaces an
\* earlier one with the same key)
MapOfEntries(es) ==
    [k \in {es[i].key : i \in DOMAIN es} |->
        es[CHOOSE i \in DOMAIN es : es[i].key = k /\ \A j \in DOMAIN es : es[j].key = k => j <= i].value]

\* the values read so far and one more
Push(acc, x) == IF x.ok THEN DecOk(Append(acc.val, x.val), x.pos) ELSE DecFail(acc.pos)

SomeOf(r) == IF r.ok THEN DecOk(<<r.val>>, r.pos) ELSE r
SetOf(r) == IF r.ok THEN DecOk(Range(r.val), r.pos) ELSE r
MapOf(r) == IF r.ok THEN DecOk(MapOfEntries(r.val), r.pos) ELSE r

\* the struct of the field values read in order
StructOf(fields, r) ==
    IF ~r.ok THEN r
    ELSE DecOk([n \in {fields[i][1] : i \in DOMAIN fields} |->
                   r.val[CHOOSE i \in DOMAIN fields : fields[i][1] = n]], r.pos)

RECURSIVE Dec(_, _, _)
RECURSIVE DecFields(_, _, _)
RECURSIVE DecItems(_, _, _, _)

\* the fields of a struct, one after the other
DecFields(b, acc, fields) ==
    IF fields = <<>> \/ ~acc.ok THEN acc
    ELSE DecFields(b, Push(acc, Dec(Head(fields)[2], b, acc.pos)), Tail(fields))

\* n values of one shape in a row
DecItems(b, acc, T, n) ==
    IF n = 0 \/ ~acc.ok THEN acc
    ELSE DecItems(b, Push(acc, Dec(T, b, acc.pos)), T, n - 1)

\* a collection: its length n, then its items
DecCounted(b, n, T) == IF ~n.ok THEN n ELSE DecItems(b, DecOk(<<>>, n.pos), T, n.val)

\* Option<T>: <<>> is None, <<v>> is Some(v); the tag t is 0 or 1
DecOption(b, t, T) ==
    IF ~t.ok THEN t
    ELSE IF t.val = 0 THEN DecOk(<<>>, t.pos)
    ELSE IF t.val = 1 THEN SomeOf(Dec(T, b, t.pos))
    ELSE DecFail(t.pos)

\* from_binary for a value of shape T at offset p
Dec(T, b, p) ==
    CASE T.k = "usize"  -> DecVarint(b, p)
      [] T.k = "i32"    -> DecZigzag(b, p)
      [] T.k = "string" -> DecString(b, p)
      [] T.k = "date"   -> DecDate(b, p)
      [] T.k = "option" -> DecOption(b, DecVarint(b, p), T.of)
      [] T.k = "vec"    -> DecCounted(b, DecVarint(b, p), T.of)
      [] T.k = "set"    -> SetOf(DecCounted(b, DecVarint(b, p), T.of))
      [] T.k = "map"    -> MapOf(DecCounted(b, DecVarint(b, p), T.of))
      [] T.k = "struct" -> StructOf(T.fields, DecFields(b, DecOk(<<>>, p), T.fields))

----------------------------------------------------------------------------
(* Enumeration orders of hash collections *)

Reverse(s) == [i \in 1..Len(s) |-> s[Len(s) + 1 - i]]

\* the numbers of a set, ascending
RECURSIVE AscInts(_)
AscInts(S) ==
    IF S = {} THEN <<>>
    ELSE LET m == CHOOSE x \in S : \A y \in S : x <= y
         IN <<m>> \o AscInts(S \ {m})

\* the strings of a set, ascending
RECURSIVE AscStrs(_)
AscStrs(S) ==
    IF S = {} THEN <<>>
    ELSE LET m == CHOOSE x \in S : \A y \in S : ~SeqLess(y, x)
         IN <<m>> \o AscStrs(S \ {m})

\* the hasher states a collection can be written under: the artifact fixes one
\* iteration order per collection; two of them are kept apart here
HashSeeds == {0, 1}

IterInts(S, seed) == IF seed = 0 THEN AscInts(S) ELSE Reverse(AscInts(S))
IterStrs(S, seed) == IF seed = 0 THEN AscStrs(S) ELSE Reverse(AscStrs(S))

----------------------------------------------------------------------------
(* The data model: utils-common models *)

Heading(level, text, position, end_position) ==
    [level |-> level, text |-> text, position |-> position, end_position |-> end_position]

ArticleMetadata(id, title, summary, date, tags, url, content, page_type, headings) ==
    [id |-> id, title |-> title, summary |-> summary, date |-> date, tags |-> tags,
     url |-> url, content |-> content, page_type |-> page_type, headings |-> headings]

\* Option<usize>: <<>> is None, <<v>> is Some(v)
EncOptUsize(o) == IF o = <<>> THEN <<0>> ELSE <<1>> \o EncVarint(o[1])

EncHeading(h) ==
    EncVarint(h.level) \o EncString(h.text) \o EncVarint(h.position)
    \o EncOptUsize(h.end_position)

RECURSIVE EncHeadings(_)
EncHeadings(hs) == IF hs = <<>> THEN <<>> ELSE EncHeading(Head(hs)) \o EncHeadings(Tail(hs))

\* Deserialize for Heading
THeading ==
    TStruct(<<<<"level", TUsize>>, <<"text", TString>>, <<"position", TUsize>>,
              <<"end_position", TOption(TUsize)>>>>)

\* the way `content` is written: the field carries
\* skip_serializing_if = "String::is_empty", and the binary format has no
\* field names or presence marks, so a skipped field leaves no bytes at all
EncContentSkipEmpty(content) == IF content = <<>> THEN <<>> ELSE EncString(content)

\* Serialize for ArticleMetadata: the fields in declaration order
EncArticle(a) ==
    EncString(a.id) \o EncString(a.title) \o EncString(a.summary) \o EncDate(a.date)
    \o EncVarint(Len(a.tags)) \o EncStrings(a.tags) \o EncString(a.url)
    \o EncContentSkipEmpty(a.content)
    \o EncString(a.page_type)
    \o EncVarint(Len(a.headings)) \o EncHeadings(a.headings)

RECURSIVE EncArticles(_)
EncArticles(as) == IF as = <<>> THEN <<>> ELSE EncArticle(Head(as)) \o EncArticles(Tail(as))

\* Deserialize for ArticleMetadata: the binary format hands the visitor a
\* sequence of all nine fields, read one after the other
TArticleMetadata ==
    TStruct(<<<<"id", TString>>, <<"title", TString>>, <<"summary", TString>>,
              <<"date", TDate>>, <<"tags", TVec(TString)>>, <<"url", TString>>,
              <<"content", TString>>, <<"page_type", TString>>,
              <<"headings", TVec(THeading)>>>>)

----------------------------------------------------------------------------
(* article-filter models: FilterIndex, and its serialization *)

EmptyMap == [k \in {} |-> {}]

FilterIndex(as, tag_index, year_index, month_index) ==
    [articles |-> as, tag_index |-> tag_index, year_index |-> year_index,
     month_index |-> month_index]

EncUsizeSet(S, seed) == EncVarint(Cardinality(S)) \o EncUsizes(IterInts(S, seed))

\* HashMap<String, HashSet<usize>>: the entries in the map's iteration order
RECURSIVE EncStrEntries(_, _, _)
EncStrEntries(m, keys, seed) ==
    IF keys = <<>> THEN <<>>
    ELSE EncString(Head(keys)) \o EncUsizeSet(m[Head(keys)], seed)
         \o EncStrEntries(m, Tail(keys), seed)

EncStrMap(m, seed) ==
    EncVarint(Cardinality(DOMAIN m)) \o EncStrEntries(m, IterStrs(DOMAIN m, seed), seed)

\* HashMap<i32, HashSet<usize>>
RECURSIVE EncIntEntries(_, _, _)
EncIntEntries(m, keys, seed) ==
    IF keys = <<>> THEN <<>>
    ELSE EncZigzag(Head(keys)) \o EncUsizeSet(m[Head(keys)], seed)
         \o EncIntEntries(m, Tail(keys), seed)

EncIntMap(m, seed) ==
    EncVarint(Cardinality(DOMAIN m)) \o EncIntEntries(m, IterInts(DOMAIN m, seed), seed)

\* to_binary of a FilterIndex
FilterIndexToBinary(x, seed) ==
    EncVarint(Len(x.articles)) \o EncArticles(x.articles)
    \o EncStrMap(x.tag_index, seed) \o EncIntMap(x.year_index, seed)
    \o EncStrMap(x.month_index, seed)

\* Deserialize for FilterIndex
TFilterIndex ==
    TStruct(<<<<"articles", TVec(TArticleMetadata)>>,
              <<"tag_index", THashMap(TString, THashSet(TUsize))>>,
              <<"year_index", THashMap(TI32, THashSet(TUsize))>>,
              <<"month_index", THashMap(TString, THashSet(TUsize))>>>>)

----------------------------------------------------------------------------
(* utils-common compression: the framed container *)

\* "NECMP"
MAGIC_BYTES == <<78, 69, 67, 77, 80>>

\* u32::to_le_bytes
U32LeBytes(n) == <<n % 256, (n \div 256) % 256, (n \div 65536) % 256, (n \div 16777216) % 256>>

\* u32::from_le_bytes
U32FromLeBytes(b) == b[1] + 256 * b[2] + 65536 * b[3] + 16777216 * b[4]

\* the check value of the bytes b[lo..hi], summed by halves
RECURSIVE ByteSumRange(_, _, _)
ByteSumRange(b, lo, hi) ==
    IF lo > hi THEN 0
    ELSE IF lo = hi THEN b[lo] % 256
    ELSE LET mid == (lo + hi) \div 2
         IN (ByteSumRange(b, lo, mid) + ByteSumRange(b, mid + 1, hi)) % 256

ByteSum(b) == ByteSumRange(b, 1, Len(b))

\* GzEncoder: the member header, the data, and the trailer that lets the reader
\* check what it inflated (check value and length of the data)
GzEncode(data) == <<31, 139, 8>> \o data \o <<ByteSum(data), Len(data) % 256>>

\* GzDecoder::read_to_end: [ok, val]; a bad header or trailer is an io error
GzDecode(b) ==
    IF Len(b) < 5 \/ SubSeq(b, 1, 3) # <<31, 139, 8>> THEN [ok |-> FALSE, val |-> <<>>]
    ELSE LET data == SubSeq(b, 4, Len(b) - 2)
         IN IF b[Len(b) - 1] # ByteSum(data) \/ b[Len(b)] # Len(data) % 256
            THEN [ok |-> FALSE, val |-> <<>>]
            ELSE [ok |-> TRUE, val |-> data]

\* to_compressed, given the serialized object
ToCompressed(binary, version) ==
    MAGIC_BYTES \o version \o U32LeBytes(Len(binary)) \o GzEncode(binary)

\* a reader that takes a frame of any version
DecompressAnyVersion(data, max_version) ==
    IF Len(data) < Len(MAGIC_BYTES) + 2 + 4 THEN [err |-> "short", val |-> <<>>]
    ELSE IF SubSeq(data, 1, Len(MAGIC_BYTES)) # MAGIC_BYTES THEN [err |-> "magic", val |-> <<>>]
    ELSE LET size_offset == Len(MAGIC_BYTES) + 2
             original_size == U32FromLeBytes(Slice(data, size_offset, size_offset + 4))
             decompressed == GzDecode(Slice(data, size_offset + 4, Len(data)))
         IN IF ~decompressed.ok THEN [err |-> "gzip", val |-> <<>>]
            ELSE IF Len(decompressed.val) # original_size THEN [err |-> "size", val |-> <<>>]
            ELSE [err |-> "none", val |-> decompressed.val]

\* what from_compressed_with_max_version answers before it deserializes:
\* [err, val] with err one of "none", "short", "magic", "version", "gzip", "size"
Decompress(data, max_version) ==
    IF Len(data) < Len(MAGIC_BYTES) + 2 + 4 THEN [err |-> "short", val |-> <<>>]
    ELSE IF SubSeq(data, 1, Len(MAGIC_BYTES)) # MAGIC_BYTES THEN [err |-> "magic", val |-> <<>>]
    ELSE LET version_offset == Len(MAGIC_BYTES)
             version == <<data[version_offset + 1], data[version_offset + 2]>>
         IN IF version[1] > max_version THEN [err |-> "version", val |-> <<>>]
            ELSE LET size_offset == version_offset + 2
                     original_size == U32FromLeBytes(Slice(data, size_offset, size_offset + 4))
                     decompressed == GzDecode(Slice(data, size_offset + 4, Len(data)))
                 IN IF ~decompressed.ok THEN [err |-> "gzip", val |-> <<>>]
                    ELSE IF Len(decompressed.val) # original_size
                         THEN [err |-> "size", val |-> <<>>]
                    ELSE [err |-> "none", val |-> decompressed.val]

NoIndex == FilterIndex(<<>>, EmptyMap, EmptyMap, EmptyMap)

\* from_binary: [ok, val]; bytes left over after the value are ignored
FromBinary(T, b) == Dec(T, b, 0)

\* the last step of from_compressed_with_max_version: err "binary" when the
\* inflated payload does not deserialize
Deserialized(x, none) ==
    IF x.ok THEN [err |-> "none", val |-> x.val] ELSE [err |-> "binary", val |-> none]

FromDecompressed(T, d, none) ==
    IF d.err # "none" THEN [err |-> d.err, val |-> none]
    ELSE Deserialized(FromBinary(T, d.val), none)

\* from_compressed_with_max_version::<FilterIndex>: [err, val]
FilterIndexFromCompressed(data, max_version) ==
    FromDecompressed(TFilterIndex, Decompress(data, max_version), NoIndex)

----------------------------------------------------------------------------
(* article-filter builder *)

RECURSIVE Decimal(_)
Decimal(n) == IF n < 10 THEN <<ChDigit(n)>> ELSE Decimal(n \div 10) \o <<ChDigit(n % 10)>>

\* format!("{}-{:02}", year, month)
MonthKey(date) ==
    Decimal(date.y) \o <<ChDash>> \o (IF date.m < 10 THEN Digits2(date.m) ELSE Decimal(date.m))

\* the ordinals (0-based) of a sequence
Ordinals(as) == {i - 1 : i \in DOMAIN as}

\* a builder that numbers the articles from 1
BuildTagIndexOneBased(as) ==
    [t \in UNION {Range(as[i].tags) : i \in DOMAIN as} |->
        {i \in DOMAIN as : t \in Range(as[i].tags)}]

\* tag_index.entry(tag).or_insert_with(HashSet::new).insert(i), over every
\* article and every tag of it
BuildTagIndex(as) ==
    [t \in UNION {Range(as[i].tags) : i \in DOMAIN as} |->
        {i \in Ordinals(as) : t \in Range(as[i + 1].tags)}]

BuildYearIndex(as) ==
    [y \in {as[i].date.y : i \in DOMAIN as} |->
        {i \in Ordinals(as) : as[i + 1].date.y = y}]

BuildMonthIndex(as) ==
    [k \in {MonthKey(as[i].date) : i \in DOMAIN as} |->
        {i \in Ordinals(as) : MonthKey(as[i + 1].date) = k}]

\* FilterBuilder::build_filter_index: [ok, val]; no articles is an error
BuildFilterIndex(as) ==
    IF as = <<>> THEN [ok |-> FALSE, val |-> NoIndex]
    ELSE [ok |-> TRUE,
          val |-> FilterIndex(as, BuildTagIndex(as), BuildYearIndex(as), BuildMonthIndex(as))]

\* the version save_filter_index writes
FilterVersion == <<3, 0>>

\* the bytes save_filter_index writes for a built index
FilterArtifact(x, seed) == ToCompressed(FilterIndexToBinary(x, seed), FilterVersion)

----------------------------------------------------------------------------
(* article-filter engine *)

\* the largest major version load_index accepts
FilterMaxVersion == 3

\* lib.rs ArticleMetadata: the fields kept for display
DisplayArticle(a) ==
    [id |-> a.id, title |-> a.title, summary |-> a.summary, date |-> a.date,
     tags |-> a.tags, url |-> a.url]

\* convert_filter_to_article_index. The Vec<usize> of a tag lists the ordinals
\* of the HashSet it is collected from, once each, in the set's iteration
\* order; it is only ever read for membership, so it is kept as the set
ConvertFilterToArticleIndex(x) ==
    [articles |-> [i \in DOMAIN x.articles |-> DisplayArticle(x.articles[i])],
     tag_index |-> x.tag_index]

\* Option<T>: <<>> is None, <<v>> is Some(v)
None == <<>>
Some(v) == <<v>>
UnwrapOr(o, d) == IF o = <<>> THEN d ELSE o[1]

FilterParams(tags, sort, page, limit, date) ==
    [tags |-> tags, sort |-> sort, page |-> page, limit |-> limit, date |-> date]

\* a tag filter that keeps the articles carrying every one of the tags
FilterByAllTags(index, tags) ==
    {id \in Ordinals(index.articles) :
        \A t \in Range(tags) : t \in DOMAIN index.tag_index /\ id \in index.tag_index[t]}

\* filter_by_tags: the union of the posting lists of the tags the index knows
FilterByTags(index, tags) ==
    UNION {index.tag_index[t] : t \in Range(tags) \cap DOMAIN index.tag_index}

\* str::split(','): the pieces between the commas
RECURSIVE SplitComma(_)
SplitComma(s) ==
    IF \A i \in DOMAIN s : s[i] # ChComma THEN <<s>>
    ELSE LET k == CHOOSE i \in DOMAIN s : s[i] = ChComma /\ \A j \in 1..(i - 1) : s[j] # ChComma
         IN <<SubSeq(s, 1, k - 1)>> \o SplitComma(SubSeq(s, k + 1, Len(s)))

StrAll == <<97, 108, 108>>
\* "T00:00:00Z" and "T23:59:59Z"
StartOfDaySuffix == <<ChT, 48, 48, ChColon, 48, 48, ChColon, 48, 48, ChZ>>
EndOfDaySuffix == <<ChT, 50, 51, ChColon, 53, 57, ChColon, 53, 57, ChZ>>

\* the date part of apply_filters: whether the article date passes
DatePasses(date, date_param) ==
    LET date_parts == SplitComma(date_param)
        start_date_str == date_parts[1]
        end_date_str == IF Len(date_parts) >= 2 THEN date_parts[2] ELSE <<>>
        has_start_date == start_date_str # <<>>
        has_end_date == end_date_str # <<>>
        start == ParseRfc3339(start_date_str \o StartOfDaySuffix)
        end == ParseRfc3339(end_date_str \o EndOfDaySuffix)
    IN IF has_start_date /\ has_end_date
       THEN (IF start.ok /\ end.ok
             THEN DateLeq(start.val, date) /\ DateLeq(date, end.val)
             ELSE TRUE)
       ELSE IF has_start_date THEN (IF start.ok THEN DateLeq(start.val, date) ELSE TRUE)
       ELSE IF has_end_date THEN (IF end.ok THEN DateLeq(date, end.val) ELSE TRUE)
       ELSE TRUE

\* apply_filters: the candidate ids, a HashSet
ApplyFilters(index, params) ==
    LET all == Ordinals(index.articles)
        tagged == IF params.tags # None /\ params.tags[1] # <<>>
                  THEN all \cap FilterByTags(index, params.tags[1])
                  ELSE all
    IN IF params.date # None /\ params.date[1] # StrAll
       THEN {id \in tagged : DatePasses(index.articles[id + 1].date, params.date[1])}
       ELSE tagged

\* the comparator apply_sorting hands to sort_by: TRUE when a must come before b
SortBefore(sort, a, b) ==
    IF sort = Some("oldest") THEN DateLess(a.date, b.date)
    ELSE IF sort = Some("title_asc") THEN SeqLess(a.title, b.title)
    ELSE IF sort = Some("title_desc") THEN SeqLess(b.title, a.title)
    ELSE DateLess(b.date, a.date)

\* slice::sort_by is a stable sort: insertion behind every element that does
\* not have to come after x
RECURSIVE InsertStable(_, _, _)
InsertStable(sort, sorted, x) ==
    IF sorted = <<>> THEN <<x>>
    ELSE IF SortBefore(sort, x, Head(sorted)) THEN <<x>> \o sorted
    ELSE <<Head(sorted)>> \o InsertStable(sort, Tail(sorted), x)

RECURSIVE SortFrom(_, _, _)
SortFrom(sort, sorted, rest) ==
    IF rest = <<>> THEN sorted
    ELSE SortFrom(sort, InsertStable(sort, sorted, Head(rest)), Tail(rest))

ApplySorting(as, sort) == SortFrom(sort, <<>>, as)

----------------------------------------------------------------------------
(* usize arithmetic: a result outside 0..UsizeMax panics in a build with     *)
(* overflow checks and wraps otherwise                                       *)

Overflows(x) == x < 0 \/ x > UsizeMax
Wrap(x) == (x + UsizeModulus * UsizeModulus) % UsizeModulus

\* the default values of the page and of the page length (filter)
DefaultPage == 1
DefaultLimit == 12

\* the pagination of filter_articles over `total` sorted matches:
\* [panic, total_pages, page, limit, start, end]
Paginate(total, params, checks) ==
    LET page0 == Max(UnwrapOr(params.page, DefaultPage), 1)
        limit == Max(UnwrapOr(params.limit, DefaultLimit), 1)
        sum == total + limit
        sum1 == Wrap(sum) - 1
        total_pages == Wrap(sum1) \div Max(limit, 1)
        page == Min(page0, Max(total_pages, 1))
        prod == (page - 1) * limit
        start == Wrap(prod)
        sum2 == start + limit
        end == Min(Wrap(sum2), total)
        overflow == Overflows(sum) \/ Overflows(sum1) \/ Overflows(prod) \/ Overflows(sum2)
        \* filtered_articles[start..end] is taken when start < len
        bad_slice == start < total /\ (start > end \/ end > total)
    IN [panic |-> (checks /\ overflow) \/ bad_slice,
        total_pages |-> total_pages, page |-> page, limit |-> limit,
        start |-> start, end |-> end]

\* results handed to the host
NoRet == [kind |-> "none"]
Panic == [kind |-> "panic"]
Err(msg) == [kind |-> "err", msg |-> msg]
\* "索引未初始化"
NotInitialized == Err("NotInitialized")

\* the page pg of the sorted matches
FilterPage(sorted, pg) ==
    IF pg.panic THEN Panic
    ELSE [kind |-> "ok",
          articles |-> IF pg.start < Len(sorted) THEN Slice(sorted, pg.start, pg.end)
                       ELSE <<>>,
          total |-> Len(sorted), page |-> pg.page, limit |-> pg.limit,
          total_pages |-> pg.total_pages]

FilterPaged(sorted, params, checks) ==
    FilterPage(sorted, Paginate(Len(sorted), params, checks))

\* ArticleFilter::filter_articles on an installed index, the candidate ids
\* arriving in the order `candidate_ids` of the HashSet
FilterArticlesOn(index, params, candidate_ids, checks) ==
    FilterPaged(ApplySorting([i \in DOMAIN candidate_ids |->
                                 index.articles[candidate_ids[i] + 1]], params.sort),
                params, checks)

----------------------------------------------------------------------------
(* The articles the extractor hands over *)

StrArticle == <<97, 114, 116, 105, 99, 108, 101>>   \* "article"
ChSlash == 47

\* an article as the extractor emits it: url is "/" + id, the summary is left
\* empty, every page is of type "article"
Extracted(id, title, date, tags, content, headings) ==
    ArticleMetadata(id, title, <<>>, date, tags, <<ChSlash>> \o id, content, StrArticle,
                    headings)

TagR == <<114>>   \* "r"
TagW == <<119>>   \* "w"
TagX == <<120>>   \* "x", a tag no article carries

\* the articles of the model: two with equal titles, two with equal dates,
\* dates on both sides of the year 2024, content with a three-byte character,
\* a heading, and an article without content
ArticleP == Extracted(<<112>>, <<98>>, Date(2023, 12, 31, 86399), <<TagR>>, <<20013, 32, 99>>, <<>>)
Article1 ==
    Extracted(<<49>>, <<97>>, Date(2024, 1, 1, 0), <<TagR, TagW>>, <<104, 32, 99>>,
              <<Heading(1, <<104>>, 0, Some(3))>>)
ArticleS == Extracted(<<115>>, <<97>>, Date(2024, 12, 31, 86399), <<TagW>>, <<99, 100>>, <<>>)
ArticleT == Extracted(<<116>>, <<98>>, Date(2024, 12, 31, 86399), <<>>, <<100>>, <<>>)
ArticleNoContent == Extracted(<<117>>, <<99>>, Date(2025, 1, 1, 0), <<TagR>>, <<>>, <<>>)

ArticlePool == {ArticleP, Article1, ArticleS, ArticleT}
LifecyclePool == {ArticleP, Article1, ArticleNoContent}

StrDirectory == <<100, 105, 114, 101, 99, 116, 111, 114, 121>>   \* "directory"

----------------------------------------------------------------------------
(* Host inputs *)

\* byte strings the host may pass to init: the artifacts on disk, and an
\* artifact damaged in each way the loader checks for
WithMajor(f, major) == IF Len(f) < 6 THEN f ELSE [f EXCEPT ![6] = major]

Damaged(f) ==
    IF Len(f) < 16 THEN {}
    ELSE { SubSeq(f, 1, 10),                         \* cut short
           [f EXCEPT ![1] = 88],                     \* other magic
           WithMajor(f, FilterMaxVersion + 1),       \* a later major version
           [f EXCEPT ![8] = (f[8] + 1) % 256],       \* other declared length
           SubSeq(f, 1, Len(f) - 1) }                \* gzip stream cut

\* the filter artifact of an earlier run of the indexer, over another corpus
OtherArtifact == FilterArtifact(BuildFilterIndex(<<ArticleS>>).val, 0)

InitInputs == {<<>>, filter_file, search_file, OtherArtifact} \cup Damaged(filter_file)

PageInputs == {Some(0), Some(2), Some(UsizeMax)}
LimitInputs == {Some(0), Some(1), Some(UsizeMax)}
SortInputs == {Some("newest"), Some("oldest"), Some("title_asc"), Some("title_desc"),
               Some("relevance")}
TagInputs == {Some(<<>>), Some(<<TagR>>), Some(<<TagW>>), Some(<<TagR, TagW>>),
              Some(<<TagX>>), Some(<<TagX, TagW>>)}

\* "2024-01-01", "2024-12-31", "2024-13-01" (no such month), "x"
Day20240101 == <<50, 48, 50, 52, 45, 48, 49, 45, 48, 49>>
Day20241231 == <<50, 48, 50, 52, 45, 49, 50, 45, 51, 49>>
DayBadMonth == <<50, 48, 50, 52, 45, 49, 51, 45, 48, 49>>
DayJunk == <<120>>
Year2024 == Day20240101 \o <<ChComma>> \o Day20241231
StartInputs == {<<>>, Day20240101, DayJunk}
EndInputs == {<<>>, Day20241231, DayJunk}

DateInputs ==
    {Some(StrAll), Some(Day20240101), Some(DayBadMonth \o <<ChComma>> \o Day20241231)}
    \cup {Some(a \o <<ChComma>> \o b) : a \in StartInputs, b \in EndInputs}

\* the parameter sets of the model: the tags, the dates, the pagination and
\* the sorting are each varied with the others left out, and a tag filter is
\* joined to a date range and to a page
ParamInputs ==
    {FilterParams(t, None, None, None, None) : t \in TagInputs}
    \cup {FilterParams(None, None, None, None, d) : d \in DateInputs}
    \cup {FilterParams(None, None, pg, l, None) : pg \in PageInputs, l \in LimitInputs}
    \cup {FilterParams(None, so, None, None, None) : so \in SortInputs}
    \cup {FilterParams(Some(<<TagR, TagW>>), Some("oldest"), Some(1), Some(2), Some(Year2024)),
          FilterParams(Some(<<TagX>>), None, Some(2), Some(1), None),
          FilterParams(None, Some("title_asc"), Some(2), Some(1), None)}

----------------------------------------------------------------------------
(* Offline: the indexer feeds both builders and writes the two artifacts *)

\* main.rs, one run of the indexer: every extracted article goes to both
\* builders (the search builder drops directory pages), then the filter
\* artifact is written, then the search artifact
AddArticle(a) ==
    /\ filter_file = <<>> /\ search_file = <<>>
    /\ Len(articles) < MaxArticles
    /\ a \notin Range(articles)
    /\ articles' = Append(articles, a)
    /\ sb_articles' = IF a.page_type # StrDirectory THEN Append(sb_articles, a) ELSE sb_articles
    /\ UNCHANGED <<filter_file, search_file, INDEX, overflow_checks, call, ret>>
    /\ UNCHANGED <<sync, threads>>

\* FilterBuilder::save_filter_index: nothing is written when the build fails
SaveFilterIndex(seed) ==
    \E built \in {BuildFilterIndex(articles)} :
       /\ filter_file = <<>>
       /\ built.ok
       /\ filter_file' = FilterArtifact(built.val, seed)
       /\ UNCHANGED <<articles, sb_articles, search_file, INDEX, overflow_checks, call, ret>>
       /\ UNCHANGED <<sync, threads>>

----------------------------------------------------------------------------
(* Online: the filter entry points *)

\* a cell that takes every value it is given
GetOrInitOverwrites(cell, value) == <<value>>

\* INDEX.get_or_init(|| ...): the cell keeps the value it already holds
GetOrInit(cell, value) == IF cell = <<>> THEN <<value>> ELSE cell

\* a loader that installs an empty index when the bytes do not decode
LoadIndexInstallsOnError(data, cell) ==
    LET decoded == FilterIndexFromCompressed(data, FilterMaxVersion)
    IN [ret |-> IF decoded.err # "none" THEN Err(decoded.err) ELSE [kind |-> "ok"],
        cell |-> IF cell = <<>> THEN <<ConvertFilterToArticleIndex(decoded.val)>> ELSE cell]

\* load_index once the bytes went through the codec
Loaded(decoded, cell) ==
    IF decoded.err # "none"
    THEN [ret |-> Err(decoded.err), cell |-> cell]
    ELSE [ret |-> [kind |-> "ok"],
          cell |-> GetOrInit(cell, ConvertFilterToArticleIndex(decoded.val))]

\* ArticleFilter::load_index: [ret, cell]
LoadIndex(data, cell) == Loaded(FilterIndexFromCompressed(data, FilterMaxVersion), cell)

\* ArticleFilterJS::init
FilterInit(data) ==
    \E r \in {LoadIndex(data, INDEX)} :
       /\ INDEX' = r.cell
       /\ call' = [op |-> "init", data |-> data]
       /\ ret' = r.ret
       /\ UNCHANGED <<articles, sb_articles, filter_file, search_file, overflow_checks>>
       /\ sync' = [sync EXCEPT !.once = IF INDEX' = <<>> THEN @ ELSE "complete"]
       /\ UNCHANGED threads

\* ArticleFilterJS::get_all_tags: the keys of tag_index, in the map's order
GetAllTags ==
    /\ call' = [op |-> "get_all_tags"]
    /\ IF INDEX = <<>>
       THEN ret' = NotInitialized
       ELSE \E tags \in Orders(DOMAIN INDEX[1].tag_index) : ret' = [kind |-> "ok", tags |-> tags]
    /\ UNCHANGED <<articles, sb_articles, filter_file, search_file, INDEX, overflow_checks>>
    /\ UNCHANGED <<sync, threads>>

\* a query that answers from an empty index when none is installed
FilterArticlesWithoutIndexCheck(json_ok, params) ==
    /\ call' = [op |-> "filter_articles", json_ok |-> json_ok, params |-> params]
    /\ IF ~json_ok THEN ret' = Err("ParseParams")
       ELSE LET index == IF INDEX = <<>> THEN ConvertFilterToArticleIndex(NoIndex)
                         ELSE INDEX[1]
            IN \E candidate_ids \in Orders(ApplyFilters(index, params)) :
                   ret' = FilterArticlesOn(index, params, candidate_ids, overflow_checks)
    /\ UNCHANGED <<articles, sb_articles, filter_file, search_file, INDEX, overflow_checks>>
    /\ UNCHANGED <<sync, threads>>

\* ArticleFilterJS::filter_articles: parameters that are not valid JSON for
\* FilterParams are refused before the engine is asked
FilterArticles(json_ok, params) ==
    /\ call' = [op |-> "filter_articles", json_ok |-> json_ok, params |-> params]
    /\ IF ~json_ok THEN ret' = Err("ParseParams")
       ELSE IF INDEX = <<>> THEN ret' = NotInitialized
       ELSE \E candidate_ids \in Orders(ApplyFilters(INDEX[1], params)) :
                ret' = FilterArticlesOn(INDEX[1], params, candidate_ids, overflow_checks)
    /\ UNCHANGED <<articles, sb_articles, filter_file, search_file, INDEX, overflow_checks>>
    /\ UNCHANGED <<sync, threads>>

----------------------------------------------------------------------------
(* Characters: the classes of char the builders and engines ask about, on   *)
(* ASCII, the CJK unified ideographs and the full-width comma               *)

IsAsciiDigit(c) == c >= 48 /\ c <= 57
IsHan(c) == c >= 19968 /\ c <= 40959
\* char::is_alphanumeric: every letter and digit of Unicode, Han included
IsAlphanumeric(c) ==
    IsAsciiDigit(c) \/ (c >= 65 /\ c <= 90) \/ (c >= 97 /\ c <= 122) \/ IsHan(c)
IsWhitespace(c) == c = 32 \/ (c >= 9 /\ c <= 13) \/ c = 12288
IsAsciiPunctuation(c) ==
    (c >= 33 /\ c <= 47) \/ (c >= 58 /\ c <= 64) \/ (c >= 91 /\ c <= 96)
    \/ (c >= 123 /\ c <= 126)

\* char::to_lowercase: one character may become several
LowerChar(c) ==
    IF c >= 65 /\ c <= 90 THEN <<c + 32>>
    ELSE IF c = 304 THEN <<105, 775>>
    ELSE <<c>>

RECURSIVE ToLowercase(_)
ToLowercase(s) == IF s = <<>> THEN <<>> ELSE LowerChar(Head(s)) \o ToLowercase(Tail(s))

\* str::len: the length in bytes
ByteLen(s) == Len(Utf8Str(s))

RECURSIVE TrimStart(_)
TrimStart(s) == IF s # <<>> /\ IsWhitespace(Head(s)) THEN TrimStart(Tail(s)) ELSE s

RECURSIVE TrimEnd(_)
TrimEnd(s) ==
    IF s # <<>> /\ IsWhitespace(s[Len(s)]) THEN TrimEnd(SubSeq(s, 1, Len(s) - 1)) ELSE s

Trim(s) == TrimEnd(TrimStart(s))

StartsWith(s, q) == Len(q) <= Len(s) /\ SubSeq(s, 1, Len(q)) = q
Contains(s, q) == \E i \in 0..(Len(s) - Len(q)) : SubSeq(s, i + 1, i + Len(q)) = q

----------------------------------------------------------------------------
(* search builder: the keyword extractor *)

\* clean_text
CleanText(text) == ToLowercase(Trim(text))

\* the terms a run of "Chinese" characters gives: every stretch of 1 to 3
\* characters whose length in bytes is at least 2
HanTerms(chinese_chars) ==
    {t \in UNION {{SubSeq(chinese_chars, start + 1, start + i) :
                       start \in 0..(Len(chinese_chars) - i)} :
                  i \in 1..Min(Len(chinese_chars), 3)} :
        ByteLen(t) >= 2}

\* one step of the loop over the characters; st = [keywords, current_word, chinese_chars]
KeywordStep(st, c) ==
    IF IsAlphanumeric(c) \/ c = 95 \/ c = 45
    THEN [keywords |-> st.keywords \cup HanTerms(st.chinese_chars),
          current_word |-> Append(st.current_word, c),
          chinese_chars |-> <<>>]
    ELSE LET flush == st.current_word # <<>> /\ ByteLen(st.current_word) >= 2
             kw == IF flush THEN st.keywords \cup {st.current_word} ELSE st.keywords
             \* a word shorter than two bytes is neither recorded nor cleared
             cw == IF flush THEN <<>> ELSE st.current_word
         IN IF IsWhitespace(c) \/ IsAsciiPunctuation(c)
            THEN [keywords |-> kw \cup HanTerms(st.chinese_chars),
                  current_word |-> cw, chinese_chars |-> <<>>]
            ELSE [keywords |-> kw, current_word |-> cw,
                  chinese_chars |-> Append(st.chinese_chars, c)]

RECURSIVE KeywordLoop(_, _)
KeywordLoop(st, text) ==
    IF text = <<>> THEN st ELSE KeywordLoop(KeywordStep(st, Head(text)), Tail(text))

\* after the loop the pending word and the pending run are flushed, and the
\* keywords made of ASCII digits only are dropped
KeywordsAtEnd(st) ==
    {k \in st.keywords
           \cup (IF st.current_word # <<>> /\ ByteLen(st.current_word) >= 2
                 THEN {st.current_word} ELSE {})
           \cup HanTerms(st.chinese_chars) :
        ~(\A i \in DOMAIN k : IsAsciiDigit(k[i]))}

\* extract_keywords: the keywords of a text, without duplicates (their order
\* in the returned Vec is the order of a HashSet)
ExtractKeywords(text) ==
    KeywordsAtEnd(KeywordLoop([keywords |-> {}, current_word |-> <<>>, chinese_chars |-> <<>>],
                              CleanText(text)))

----------------------------------------------------------------------------
(* search builder: the heading hierarchy *)

HeadingIndexEntry(id, level, text, start_position, end_position, parent_id, children_ids) ==
    [id |-> id, level |-> level, text |-> text, start_position |-> start_position,
     end_position |-> end_position, parent_id |-> parent_id, children_ids |-> children_ids]

\* sort_by_key(|h| h.2): a stable sort of (level, text, position) by position
RECURSIVE InsertByPosition(_, _)
InsertByPosition(sorted, x) ==
    IF sorted = <<>> THEN <<x>>
    ELSE IF x[3] < Head(sorted)[3] THEN <<x>> \o sorted
    ELSE <<Head(sorted)>> \o InsertByPosition(Tail(sorted), x)

RECURSIVE SortByPosition(_, _)
SortByPosition(sorted, rest) ==
    IF rest = <<>> THEN sorted
    ELSE SortByPosition(InsertByPosition(sorted, Head(rest)), Tail(rest))

\* format!("{}:{}", article.id, idx)
HeadingId(article, idx) == article.id \o <<ChColon>> \o Decimal(idx)

\* a stack from which only the entries of a higher level are popped
RECURSIVE PopStackAbove(_, _)
PopStackAbove(stack, level) ==
    IF stack # <<>> /\ stack[Len(stack)][2] > level
    THEN PopStackAbove(SubSeq(stack, 1, Len(stack) - 1), level)
    ELSE stack

\* the stack after popping every entry whose level is >= level
RECURSIVE PopStack(_, _)
PopStack(stack, level) ==
    IF stack # <<>> /\ stack[Len(stack)][2] >= level
    THEN PopStack(SubSeq(stack, 1, Len(stack) - 1), level)
    ELSE stack

\* the walk of build_heading_hierarchy over sorted_headings[idx..]:
\* the entries made, in order, each with its parent
RECURSIVE HierarchyWalk(_, _, _, _)
HierarchyWalk(sorted_headings, article, idx, heading_stack) ==
    IF idx >= Len(sorted_headings) THEN <<>>
    ELSE LET h == sorted_headings[idx + 1]
             heading_id == HeadingId(article, idx)
             end_position == IF idx + 1 < Len(sorted_headings)
                             THEN sorted_headings[idx + 2][3]
                             ELSE ByteLen(article.content)
             popped == PopStack(heading_stack, h[1])
             parent_id == IF popped = <<>> THEN None ELSE Some(popped[Len(popped)][1])
             entry == HeadingIndexEntry(heading_id, h[1], h[2], h[3], end_position,
                                        parent_id, <<>>)
         IN <<entry>> \o HierarchyWalk(sorted_headings, article, idx + 1,
                                       Append(popped, <<heading_id, h[1]>>))

\* the ids pushed for a parent, in walk order, then sorted by start position
\* (stable)
RECURSIVE ChildrenOf(_, _)
ChildrenOf(entries, pid) ==
    IF entries = <<>> THEN <<>>
    ELSE (IF Head(entries).parent_id = Some(pid) THEN <<Head(entries)>> ELSE <<>>)
         \o ChildrenOf(Tail(entries), pid)

RECURSIVE InsertByStart(_, _)
InsertByStart(sorted, x) ==
    IF sorted = <<>> THEN <<x>>
    ELSE IF x.start_position < Head(sorted).start_position THEN <<x>> \o sorted
    ELSE <<Head(sorted)>> \o InsertByStart(Tail(sorted), x)

RECURSIVE SortByStart(_, _)
SortByStart(sorted, rest) ==
    IF rest = <<>> THEN sorted
    ELSE SortByStart(InsertByStart(sorted, Head(rest)), Tail(rest))

\* the children of a heading: ids in the order of their start positions
ChildIds(walked, pid) ==
    LET cs == SortByStart(<<>>, ChildrenOf(walked, pid))
    IN [i \in DOMAIN cs |-> cs[i].id]

\* the map id -> entry of the entries walked. An id written twice keeps the
\* later entry
HierarchyOf(walked, result) ==
    [id \in DOMAIN result |-> [result[id] EXCEPT !.children_ids = ChildIds(walked, id)]]

Hierarchy(walked) ==
    HierarchyOf(walked, MapOfEntries([i \in DOMAIN walked |->
                                         [key |-> walked[i].id, value |-> walked[i]]]))

\* build_heading_hierarchy
BuildHeadingHierarchy(sorted_headings, article) ==
    Hierarchy(HierarchyWalk(sorted_headings, article, 0, <<>>))

\* build_heading_structure_from_extracted
BuildHeadingStructureFromExtracted(headings, article) ==
    BuildHeadingHierarchy(
        SortByPosition(<<>>, [i \in DOMAIN headings |->
                                 <<headings[i].level, headings[i].text, headings[i].position>>]),
        article)

\* extract_headings. Without pre-parsed headings the content is scanned for
\* <h1>..<h6> elements; the content of the model is plain text without '<',
\* where both scans find nothing
ExtractHeadings(article) ==
    IF article.content = <<>> THEN EmptyMap
    ELSE IF article.headings # <<>>
         THEN BuildHeadingStructureFromExtracted(article.headings, article)
    ELSE EmptyMap

----------------------------------------------------------------------------
(* search builder: the index *)

ArticleSearchIndex(title_term_index, as, heading_index, heading_term_index, common_terms, content_term_index) ==
    [title_term_index |-> title_term_index, articles |-> as, heading_index |-> heading_index,
     heading_term_index |-> heading_term_index, common_terms |-> common_terms,
     content_term_index |-> content_term_index]

\* str::split_whitespace: the non-empty pieces between runs of white space
RECURSIVE SplitWhitespace(_)
SplitWhitespace(s) ==
    LET t == TrimStart(s)
    IN IF t = <<>> THEN <<>>
       ELSE LET n == IF \E i \in DOMAIN t : IsWhitespace(t[i])
                     THEN (CHOOSE i \in DOMAIN t :
                              IsWhitespace(t[i]) /\ \A j \in 1..(i - 1) : ~IsWhitespace(t[j])) - 1
                     ELSE Len(t)
            IN <<SubSeq(t, 1, n)>> \o SplitWhitespace(SubSeq(t, n + 1, Len(t)))

IsWordChar(c) == IsAlphanumeric(c) \/ c = 95 \/ c = 45

\* trim_matches(|c| !c.is_alphanumeric() && c != '_' && c != '-')
RECURSIVE TrimNonWord(_)
TrimNonWord(s) ==
    IF s # <<>> /\ ~IsWordChar(Head(s)) THEN TrimNonWord(Tail(s))
    ELSE IF s # <<>> /\ ~IsWordChar(s[Len(s)]) THEN TrimNonWord(SubSeq(s, 1, Len(s) - 1))
    ELSE s

\* the words of a title added besides its keywords
TitleWords(title) ==
    LET pieces == SplitWhitespace(ToLowercase(title))
    IN {w \in {TrimNonWord(pieces[i]) : i \in DOMAIN pieces} : ByteLen(w) >= 2}

TitleTerms(title) == ExtractKeywords(title) \cup TitleWords(title)

\* build_title_term_index
BuildTitleTermIndex(as) ==
    [t \in UNION {TitleTerms(as[i].title) : i \in DOMAIN as} |->
        {i \in Ordinals(as) : t \in TitleTerms(as[i + 1].title)}]

\* HashMap::extend: the entries of hs put into acc
Extend(acc, hs) ==
    [id \in DOMAIN acc \cup DOMAIN hs |-> IF id \in DOMAIN hs THEN hs[id] ELSE acc[id]]

\* all_headings.extend(extract_headings(article)), article after article
RECURSIVE AllHeadings(_, _)
AllHeadings(as, acc) ==
    IF as = <<>> THEN acc
    ELSE AllHeadings(Tail(as), Extend(acc, ExtractHeadings(Head(as))))

\* build_heading_term_index
BuildHeadingTermIndex(headings) ==
    [t \in UNION {ExtractKeywords(headings[id].text) : id \in DOMAIN headings} |->
        {id \in DOMAIN headings : t \in ExtractKeywords(headings[id].text)}]

StopWords ==
    { <<30340>>, <<26159>>, <<22312>>, <<20102>>, <<21644>>, <<19982>>, <<25110>>, <<32780>>,
      <<20294>>, <<22914, 26524>>, <<22240, 20026>>, <<25152, 20197>>, <<36825>>, <<37027>>,
      <<36825, 20010>>, <<37027, 20010>>, <<36825, 20123>>, <<37027, 20123>>, <<24182>>,
      <<21487, 20197>>, <<25226>>, <<34987>>, <<23558>>, <<24050>>, <<23601>>, <<20063>>,
      <<24456>>, <<21040>>, <<19978>>, <<19979>>, <<20013>>, <<20026>> }

\* a keyword that counts: no stop word, at least two bytes
Counted(keyword) == keyword \notin StopWords /\ ByteLen(keyword) >= 2

\* content_term_index
BuildContentTermIndex(as) ==
    [t \in UNION {{k \in ExtractKeywords(as[i].content) : Counted(k)} : i \in DOMAIN as} |->
        {i \in Ordinals(as) : t \in ExtractKeywords(as[i + 1].content)}]

\* term_frequency: 3 for every article whose title has the keyword. A content
\* keyword adds 1 when its count within the article is at least 2; the count
\* is taken over the keyword list, which holds every keyword once, so it is 1
ContentCount(keyword, content) == IF keyword \in ExtractKeywords(content) THEN 1 ELSE 0

TermFrequency(as) ==
    LET terms == UNION {{k \in ExtractKeywords(as[i].title) \cup ExtractKeywords(as[i].content) :
                            Counted(k)} : i \in DOMAIN as}
        freq(t) == 3 * Cardinality({i \in DOMAIN as : t \in ExtractKeywords(as[i].title)})
                   + Cardinality({i \in DOMAIN as : ContentCount(t, as[i].content) >= 2})
    IN [t \in {u \in terms : freq(u) > 0} |-> freq(t)]

\* the number of terms kept as common terms
CommonTermsLimit == 500

\* the terms sorted by frequency, highest first, cut to the limit; among
\* equal frequencies the order is the one of the HashMap (here: by seed)
RECURSIVE TakeTop(_, _, _, _)
TakeTop(tf, left, n, seed) ==
    IF n = 0 \/ left = {} THEN {}
    ELSE LET best == {t \in left : \A u \in left : tf[u] <= tf[t]}
             pick == IterStrs(best, seed)[1]
         IN {pick} \cup TakeTop(tf, left \ {pick}, n - 1, seed)

KeepCommon(tf, seed) ==
    [t \in (IF Cardinality(DOMAIN tf) <= CommonTermsLimit THEN DOMAIN tf
            ELSE TakeTop(tf, DOMAIN tf, CommonTermsLimit, seed)) |-> tf[t]]

CommonTerms(as, seed) == KeepCommon(TermFrequency(as), seed)

NoSearchIndex == ArticleSearchIndex(EmptyMap, <<>>, EmptyMap, EmptyMap, EmptyMap, EmptyMap)

\* the index over the articles and their headings
SearchIndexOver(as, all_headings, seed) ==
    ArticleSearchIndex(BuildTitleTermIndex(as), as, all_headings,
                       BuildHeadingTermIndex(all_headings),
                       CommonTerms(as, seed), BuildContentTermIndex(as))

\* SearchBuilder::build_search_index: [ok, val]
BuildSearchIndex(as, seed) ==
    IF as = <<>> THEN [ok |-> FALSE, val |-> NoSearchIndex]
    ELSE [ok |-> TRUE, val |-> SearchIndexOver(as, AllHeadings(as, EmptyMap), seed)]

----------------------------------------------------------------------------
(* search models: serialization of ArticleSearchIndex *)

EncOptString(o) == IF o = <<>> THEN <<0>> ELSE <<1>> \o EncString(o[1])

EncHeadingEntry(e) ==
    EncString(e.id) \o EncVarint(e.level) \o EncString(e.text)
    \o EncVarint(e.start_position) \o EncVarint(e.end_position)
    \o EncOptString(e.parent_id)
    \o EncVarint(Len(e.children_ids)) \o EncStrings(e.children_ids)

\* Deserialize for HeadingIndexEntry
THeadingIndexEntry ==
    TStruct(<<<<"id", TString>>, <<"level", TUsize>>, <<"text", TString>>,
              <<"start_position", TUsize>>, <<"end_position", TUsize>>,
              <<"parent_id", TOption(TString)>>, <<"children_ids", TVec(TString)>>>>)

\* HashMap<String, HeadingIndexEntry>
RECURSIVE EncHeadingEntries(_, _)
EncHeadingEntries(m, keys) ==
    IF keys = <<>> THEN <<>>
    ELSE EncString(Head(keys)) \o EncHeadingEntry(m[Head(keys)])
         \o EncHeadingEntries(m, Tail(keys))

EncHeadingMap(m, seed) ==
    EncVarint(Cardinality(DOMAIN m)) \o EncHeadingEntries(m, IterStrs(DOMAIN m, seed))

\* HashMap<String, HashSet<String>>
RECURSIVE EncStrSetEntries(_, _, _)
EncStrSetEntries(m, keys, seed) ==
    IF keys = <<>> THEN <<>>
    ELSE EncString(Head(keys)) \o EncVarint(Cardinality(m[Head(keys)]))
         \o EncStrings(IterStrs(m[Head(keys)], seed))
         \o EncStrSetEntries(m, Tail(keys), seed)

EncStrSetMap(m, seed) ==
    EncVarint(Cardinality(DOMAIN m)) \o EncStrSetEntries(m, IterStrs(DOMAIN m, seed), seed)

\* HashMap<String, usize>
RECURSIVE EncStrUsizeEntries(_, _)
EncStrUsizeEntries(m, keys) ==
    IF keys = <<>> THEN <<>>
    ELSE EncString(Head(keys)) \o EncVarint(m[Head(keys)]) \o EncStrUsizeEntries(m, Tail(keys))

EncStrUsizeMap(m, seed) ==
    EncVarint(Cardinality(DOMAIN m)) \o EncStrUsizeEntries(m, IterStrs(DOMAIN m, seed))

\* to_binary of an ArticleSearchIndex: the fields in declaration order
SearchIndexToBinary(x, seed) ==
    EncStrMap(x.title_term_index, seed)
    \o EncVarint(Len(x.articles)) \o EncArticles(x.articles)
    \o EncHeadingMap(x.heading_index, seed)
    \o EncStrSetMap(x.heading_term_index, seed)
    \o EncStrUsizeMap(x.common_terms, seed)
    \o EncStrMap(x.content_term_index, seed)

\* Deserialize for ArticleSearchIndex
TArticleSearchIndex ==
    TStruct(<<<<"title_term_index", THashMap(TString, THashSet(TUsize))>>,
              <<"articles", TVec(TArticleMetadata)>>,
              <<"heading_index", THashMap(TString, THeadingIndexEntry)>>,
              <<"heading_term_index", THashMap(TString, THashSet(TString))>>,
              <<"common_terms", THashMap(TString, TUsize)>>,
              <<"content_term_index", THashMap(TString, THashSet(TUsize))>>>>)

\* from_compressed_with_max_version::<ArticleSearchIndex>
SearchIndexFromCompressed(data, max_version) ==
    FromDecompressed(TArticleSearchIndex, Decompress(data, max_version), NoSearchIndex)

\* the version save_search_index writes
SearchVersion == <<7, 0>>

\* the largest major version search_articles accepts
SearchMaxVersion == 9

SearchArtifact(x, seed) == ToCompressed(SearchIndexToBinary(x, seed), SearchVersion)

----------------------------------------------------------------------------
(* search engine: byte offsets into strings.  The engine measures, searches *)
(* and slices strings by byte offset, so here a str is its UTF-8 bytes.     *)

Bytes(s) == Utf8Str(s)
Chars(b) == Utf8CodePoints(b, 1, Len(b))

\* str::is_char_boundary: the start, the end, and every byte that leads a
\* character
IsCharBoundary(b, index) ==
    index = 0 \/ index = Len(b) \/ (index > 0 /\ index < Len(b) /\ ~IsCont(b[index + 1]))

\* the result of an expression that can panic: [panic, val]
Fine(v) == [panic |-> FALSE, val |-> v]
Panicked == [panic |-> TRUE, val |-> <<>>]
Cat(x, y) == [panic |-> x.panic \/ y.panic, val |-> x.val \o y.val]

\* &s[lo..hi]: panics unless lo <= hi <= len and both are char boundaries
StrSlice(b, lo, hi) ==
    IF lo <= hi /\ hi <= Len(b) /\ IsCharBoundary(b, lo) /\ IsCharBoundary(b, hi)
    THEN Fine(SubSeq(b, lo + 1, hi))
    ELSE Panicked

\* s[from..].find(q), as an offset into s: -1 when q does not occur
FindFrom(b, from, q) ==
    IF \E i \in from..(Len(b) - Len(q)) : SubSeq(b, i + 1, i + Len(q)) = q
    THEN CHOOSE i \in from..(Len(b) - Len(q)) :
            /\ SubSeq(b, i + 1, i + Len(q)) = q
            /\ \A j \in from..(i - 1) : SubSeq(b, j + 1, j + Len(q)) # q
    ELSE -1

\* the nearer of the boundaries on both sides of index, the earlier on a tie
NearerBoundary(index, previous, next) ==
    IF index - previous <= next - index THEN previous ELSE next

\* find_char_boundary
FindCharBoundary(b, index) ==
    IF b = <<>> THEN 0
    ELSE IF index >= Len(b) THEN Len(b)
    ELSE IF IsCharBoundary(b, index) THEN index
    ELSE NearerBoundary(index,
            CHOOSE p \in 0..index :
                IsCharBoundary(b, p) /\ \A k \in (p + 1)..index : ~IsCharBoundary(b, k),
            CHOOSE n \in index..Len(b) :
                IsCharBoundary(b, n) /\ \A k \in index..(n - 1) : ~IsCharBoundary(b, k))

\* the occurrence scan of highlight_title and find_matches_in_paragraph:
\* the query is searched in the lowercased text from start_idx on, and the
\* offsets found there are carried to the original text. [panic, positions]
\* where the scan goes on after a match: behind it, or one byte further when
\* that would not move the scan
NextStart(start_idx, valid_match_end) ==
    IF valid_match_end > start_idx THEN valid_match_end ELSE start_idx + 1

RECURSIVE ScanMatches(_, _, _, _, _)
ScanAdvance(text, lower, q, start_idx, acc, valid_abs_idx, valid_match_end) ==
    ScanMatches(text, lower, q, NextStart(start_idx, valid_match_end),
                IF valid_match_end > valid_abs_idx
                THEN Append(acc, <<valid_abs_idx, valid_match_end>>) ELSE acc)

ScanFound(text, lower, q, start_idx, acc, abs_idx) ==
    IF abs_idx < 0 THEN [panic |-> FALSE, positions |-> acc]
    ELSE ScanAdvance(text, lower, q, start_idx, acc,
                     FindCharBoundary(text, abs_idx),
                     FindCharBoundary(text, abs_idx + Len(q)))

ScanMatches(text, lower, q, start_idx, acc) ==
    IF start_idx >= Len(lower) THEN [panic |-> FALSE, positions |-> acc]
    \* lower[start_idx..] panics when start_idx is inside a character of lower
    ELSE IF ~IsCharBoundary(lower, start_idx) THEN [panic |-> TRUE, positions |-> acc]
    ELSE ScanFound(text, lower, q, start_idx, acc, FindFrom(lower, start_idx, q))

\* the values start_idx takes at the head of the loop, in turn, up to the one
\* at which the loop ends or the slice panics
RECURSIVE ScanOffsets(_, _, _, _)
ScanOffsetsFound(text, lower, q, start_idx, abs_idx) ==
    IF abs_idx < 0 THEN <<start_idx>>
    ELSE <<start_idx>>
         \o ScanOffsets(text, lower, q,
                        NextStart(start_idx, FindCharBoundary(text, abs_idx + Len(q))))

ScanOffsets(text, lower, q, start_idx) ==
    IF start_idx >= Len(lower) \/ ~IsCharBoundary(lower, start_idx) THEN <<start_idx>>
    ELSE ScanOffsetsFound(text, lower, q, start_idx, FindFrom(lower, start_idx, q))

\* sort_by_key(|&(start, ..)| start): stable
RECURSIVE InsertByOffset(_, _)
InsertByOffset(sorted, x) ==
    IF sorted = <<>> THEN <<x>>
    ELSE IF x[1] < Head(sorted)[1] THEN <<x>> \o sorted
    ELSE <<Head(sorted)>> \o InsertByOffset(Tail(sorted), x)

RECURSIVE SortByOffset(_, _)
SortByOffset(sorted, rest) ==
    IF rest = <<>> THEN sorted
    ELSE SortByOffset(InsertByOffset(sorted, Head(rest)), Tail(rest))

MarkOpen == <<60, 109, 97, 114, 107, 62>>        \* "<mark>"
MarkClose == <<60, 47, 109, 97, 114, 107, 62>>   \* "</mark>"
Ellipsis == <<46, 46, 46>>                       \* "..."

Marked(span) == Cat(Fine(MarkOpen), Cat(span, Fine(MarkClose)))

\* the loop of highlight_title over the sorted positions, and the rest after
\* the last of them
RECURSIVE MarkTitle(_, _, _)
MarkTitle(title, positions, last_pos) ==
    IF positions = <<>>
    THEN (IF last_pos < Len(title) THEN StrSlice(title, last_pos, Len(title)) ELSE Fine(<<>>))
    ELSE Cat(IF Head(positions)[1] > last_pos
             THEN StrSlice(title, last_pos, Head(positions)[1]) ELSE Fine(<<>>),
         Cat(Marked(StrSlice(title, Head(positions)[1], Head(positions)[2])),
             MarkTitle(title, Tail(positions), Head(positions)[2])))

HighlightScanned(title, scan) ==
    IF scan.panic THEN Panicked
    ELSE IF scan.positions = <<>> THEN Fine(title)
    ELSE MarkTitle(title, SortByOffset(<<>>, scan.positions), 0)

\* highlight_title(title, query), on bytes: [panic, val]
HighlightTitle(title, query) ==
    IF title = <<>> \/ query = <<>> THEN Fine(Bytes(title))
    ELSE HighlightScanned(Bytes(title),
            ScanMatches(Bytes(title), Bytes(ToLowercase(title)), Bytes(ToLowercase(query)),
                        0, <<>>))

\* format_matched_content shows a slice longer than this through a window
SnippetLimit == 300
\* the bytes the window keeps on each side of the first match
ContextRadius == 150

\* format_matched_content, a slice of at most SnippetLimit bytes: the loop
\* over the positions (every one carries priority 1) and the rest after them
RECURSIVE MarkWhole(_, _, _)
MarkWholeAt(content, positions, last_pos, safe_start, safe_end, safe_last_pos) ==
    Cat(IF safe_start > safe_last_pos THEN StrSlice(content, safe_last_pos, safe_start)
        ELSE Fine(<<>>),
    Cat(IF safe_end > safe_start THEN Marked(StrSlice(content, safe_start, safe_end))
        ELSE Fine(<<>>),
        MarkWhole(content, Tail(positions), safe_end)))

MarkWhole(content, positions, last_pos) ==
    IF positions = <<>>
    THEN (IF last_pos < Len(content)
          THEN StrSlice(content, FindCharBoundary(content, last_pos), Len(content))
          ELSE Fine(<<>>))
    ELSE IF Head(positions)[1] < Len(content)
    THEN MarkWholeAt(content, positions, last_pos,
                     FindCharBoundary(content, Head(positions)[1]),
                     FindCharBoundary(content, Min(Head(positions)[2], Len(content))),
                     FindCharBoundary(content, last_pos))
    ELSE MarkWhole(content, Tail(positions), last_pos)

\* the same over the window `context`, the positions relative to its start
RECURSIVE MarkContext(_, _, _)
MarkContextAt(context, positions, last_pos, safe_rel_start, safe_rel_end) ==
    Cat(IF Head(positions)[1] > last_pos /\ Head(positions)[1] <= Len(context)
           /\ safe_rel_start > FindCharBoundary(context, last_pos)
        THEN StrSlice(context, FindCharBoundary(context, last_pos), safe_rel_start)
        ELSE Fine(<<>>),
        IF Head(positions)[2] <= Len(context)
        THEN Cat(IF safe_rel_end > safe_rel_start
                 THEN Marked(StrSlice(context, safe_rel_start, safe_rel_end))
                 ELSE Fine(<<>>),
                 MarkContext(context, Tail(positions), safe_rel_end))
        ELSE MarkContext(context, Tail(positions), last_pos))

MarkContext(context, positions, last_pos) ==
    IF positions = <<>>
    THEN (IF last_pos < Len(context)
          THEN StrSlice(context, FindCharBoundary(context, last_pos), Len(context))
          ELSE Fine(<<>>))
    ELSE MarkContextAt(context, positions, last_pos,
                       FindCharBoundary(context, Head(positions)[1]),
                       FindCharBoundary(context, Head(positions)[2]))

\* the positions inside the window, relative to its start
VisibleMatches(positions, ctx_start, ctx_end) ==
    LET inside == SelectSeq(positions, LAMBDA p : p[1] >= ctx_start /\ p[2] <= ctx_end)
    IN [i \in DOMAIN inside |-> <<inside[i][1] - ctx_start, inside[i][2] - ctx_start>>]

WithEllipses(out, before, after) ==
    Cat(IF before THEN Fine(Ellipsis) ELSE Fine(<<>>),
        Cat(out, IF after THEN Fine(Ellipsis) ELSE Fine(<<>>)))

InContext(content, positions, ctx_start, ctx_end, context) ==
    IF context.panic THEN Panicked
    ELSE WithEllipses(MarkContext(context.val,
                                  VisibleMatches(positions, ctx_start, ctx_end), 0),
                      ctx_start > 0, ctx_end < Len(content))

\* the window around the first match
Windowed(content, positions, ctx_start, ctx_end) ==
    InContext(content, positions, ctx_start, ctx_end, StrSlice(content, ctx_start, ctx_end))

\* the fallback for an empty result: the first bytes of the content
OrLeadingBytes(content, out) ==
    IF ~out.panic /\ out.val = <<>> /\ content # <<>>
    THEN Cat(StrSlice(content, 0, FindCharBoundary(content, Min(Len(content), SnippetLimit))),
             Fine(Ellipsis))
    ELSE out

\* format_matched_content(content, term_positions), on bytes: [panic, val]
FormatMatchedContent(content, positions) ==
    IF positions = <<>> \/ content = <<>> THEN Fine(content)
    ELSE IF Len(content) > SnippetLimit
    THEN OrLeadingBytes(content,
            Windowed(content, positions,
                FindCharBoundary(content, IF positions[1][1] > ContextRadius
                                          THEN positions[1][1] - ContextRadius ELSE 0),
                FindCharBoundary(content, Min(positions[1][2] + ContextRadius, Len(content)))))
    ELSE OrLeadingBytes(content, MarkWhole(content, positions, 0))

\* no match under a heading
NoMatch == [panic |-> FALSE, some |-> FALSE, content |-> <<>>, matched_terms |-> <<>>]
MatchPanicked == [panic |-> TRUE, some |-> FALSE, content |-> <<>>, matched_terms |-> <<>>]

MatchesFormatted(out, terms) ==
    IF out.panic THEN MatchPanicked
    ELSE [panic |-> FALSE, some |-> TRUE, content |-> Chars(out.val),
          matched_terms |-> <<terms[1]>>]

MatchesScanned(content, scan, terms) ==
    IF scan.panic THEN MatchPanicked
    ELSE IF scan.positions = <<>> THEN NoMatch
    ELSE MatchesFormatted(FormatMatchedContent(content, SortByOffset(<<>>, scan.positions)),
                          terms)

\* the slice under the heading, searched for the whole query
MatchesInSlice(content, terms) ==
    IF content.panic THEN MatchPanicked
    ELSE IF Trim(Chars(content.val)) = <<>> THEN NoMatch
    ELSE IF terms = <<>> THEN NoMatch
    ELSE MatchesScanned(content.val,
                        ScanMatches(content.val, Bytes(ToLowercase(Chars(content.val))),
                                    Bytes(ToLowercase(terms[1])), 0, <<>>),
                        terms)

MatchesBetween(content, content_start, content_end, terms) ==
    IF content_start >= content_end \/ content_start >= Len(content) THEN NoMatch
    ELSE MatchesInSlice(StrSlice(content, content_start, content_end), terms)

\* the start of the slice: past the heading's own line
SliceStart(content, content_start) ==
    IF content_start < Len(content) THEN FindCharBoundary(content, content_start)
    ELSE content_start

\* find_matches_in_paragraph(article, heading, terms):
\* [panic, some, content, matched_terms]
FindMatchesInParagraph(article, heading, terms) ==
    MatchesBetween(Bytes(article.content),
                   SliceStart(Bytes(article.content),
                              heading.start_position + ByteLen(heading.text)
                                + heading.level + 1),
                   FindCharBoundary(Bytes(article.content),
                                    Min(heading.end_position, ByteLen(article.content))),
                   terms)

----------------------------------------------------------------------------
(* search engine: the heading tree of a matched article *)

StrRoot == <<58, 114, 111, 111, 116>>   \* ":root"

\* a HeadingNode for an entry and what was found under it
HeadingNode(entry, m, children) ==
    [id |-> entry.id, text |-> entry.text, level |-> entry.level,
     content |-> IF m.some THEN Some(m.content) ELSE None,
     matched_terms |-> IF m.some THEN Some(m.matched_terms) ELSE None,
     children |-> children]

\* the entry that stands for the whole article
RootHeading(article, children_ids) ==
    HeadingIndexEntry(article.id \o StrRoot, 0, article.title, 0, ByteLen(article.content),
                      None, children_ids)

\* the ids of heading_index that start with "<article.id>:"
HeadingMapIds(article, index) ==
    {id \in DOMAIN index.heading_index : StartsWith(id, article.id \o <<ChColon>>)}

\* sort_by_key(|entry| entry.start_position) over ids: stable
RECURSIVE InsertByStartPosition(_, _, _)
InsertByStartPosition(sorted, id, hi) ==
    IF sorted = <<>> THEN <<id>>
    ELSE IF hi[id].start_position < hi[Head(sorted)].start_position THEN <<id>> \o sorted
    ELSE <<Head(sorted)>> \o InsertByStartPosition(Tail(sorted), id, hi)

RECURSIVE SortByStartPosition(_, _, _)
SortByStartPosition(sorted, rest, hi) ==
    IF rest = <<>> THEN sorted
    ELSE SortByStartPosition(InsertByStartPosition(sorted, Head(rest), hi), Tail(rest), hi)

\* the comparators of the children lists: by text below a top-level heading,
\* by (level, text) everywhere else
NodeBefore(a, b, by_level) ==
    IF by_level /\ a.level # b.level THEN a.level < b.level ELSE SeqLess(a.text, b.text)

RECURSIVE InsertNode(_, _, _)
InsertNode(sorted, x, by_level) ==
    IF sorted = <<>> THEN <<x>>
    ELSE IF NodeBefore(x, Head(sorted), by_level) THEN <<x>> \o sorted
    ELSE <<Head(sorted)>> \o InsertNode(Tail(sorted), x, by_level)

RECURSIVE SortNodes(_, _, _)
SortNodes(sorted, rest, by_level) ==
    IF rest = <<>> THEN sorted
    ELSE SortNodes(InsertNode(sorted, Head(rest), by_level), Tail(rest), by_level)

\* the nodes of the ids that are headings of the article, each with its
\* children below it; depth 1 is the list under the virtual root, whose
\* members' own children are sorted by text alone (process_deeper_nodes sorts
\* every list further down by level and text)
RECURSIVE NodesOf(_, _, _, _, _)
NodesOf(ids, map_ids, hi, matches, depth) ==
    IF ids = <<>> THEN <<>>
    ELSE IF Head(ids) \notin map_ids THEN NodesOf(Tail(ids), map_ids, hi, matches, depth)
    ELSE <<HeadingNode(hi[Head(ids)], matches[Head(ids)],
                       SortNodes(<<>>, NodesOf(hi[Head(ids)].children_ids, map_ids, hi,
                                               matches, depth + 1),
                                 depth # 1))>>
         \o NodesOf(Tail(ids), map_ids, hi, matches, depth)

\* [panic, tree]: the tree is None or Some(HeadingNode)
NoTree == [panic |-> FALSE, tree |-> None]
TreePanicked == [panic |-> TRUE, tree |-> None]

\* the article has no headings in the index: the root alone
RootAlone(root_heading, m) ==
    IF m.panic THEN TreePanicked
    ELSE IF m.some THEN [panic |-> FALSE, tree |-> Some(HeadingNode(root_heading, m, <<>>))]
    ELSE NoTree

\* the virtual root over the top-level headings
RootOver(root_heading, root_content, map_ids, hi, matches) ==
    IF root_content.panic \/ \E id \in map_ids : matches[id].panic THEN TreePanicked
    ELSE [panic |-> FALSE,
          tree |-> Some(HeadingNode(root_heading, root_content,
                           SortNodes(<<>>, NodesOf(root_heading.children_ids, map_ids, hi,
                                                   matches, 1),
                                     TRUE)))]

TreeOver(article, terms, hi, map_ids, root_headings) ==
    IF root_headings = <<>> THEN NoTree
    ELSE RootOver(RootHeading(article, root_headings),
                  FindMatchesInParagraph(article, RootHeading(article, root_headings), terms),
                  map_ids, hi,
                  [id \in map_ids |-> FindMatchesInParagraph(article, hi[id], terms)])

\* build_heading_tree_with_matches(article, terms, search_index); `values` is
\* the order in which the article's headings come out of the hash map
BuildHeadingTreeWithMatches(article, terms, index, values) ==
    IF terms = <<>> \/ article.content = <<>> THEN NoTree
    ELSE IF values = <<>>
    THEN RootAlone(RootHeading(article, <<>>),
                   FindMatchesInParagraph(article, RootHeading(article, <<>>), terms))
    ELSE TreeOver(article, terms, index.heading_index, Range(values),
                  SortByStartPosition(<<>>,
                      SelectSeq(values, LAMBDA id : index.heading_index[id].parent_id = None),
                      index.heading_index))

----------------------------------------------------------------------------
(* search engine: suggestions *)

\* one row of the distance matrix from the row above it
RECURSIVE LevRow(_, _, _, _)
LevRow(above, c, s2, row) ==
    IF Len(row) = Len(above) THEN row
    ELSE LevRow(above, c, s2,
                Append(row, Min(Min(above[Len(row) + 1] + 1, row[Len(row)] + 1),
                                above[Len(row)] + (IF c = s2[Len(row)] THEN 0 ELSE 1))))

RECURSIVE LevRows(_, _, _, _)
LevRows(s1, s2, i, above) ==
    IF i > Len(s1) THEN above[Len(above)]
    ELSE LevRows(s1, s2, i + 1, LevRow(above, s1[i], s2, <<i>>))

\* levenshtein_distance(s1, s2), over characters
LevenshteinDistance(s1, s2) ==
    IF s1 = <<>> THEN Len(s2)
    ELSE IF s2 = <<>> THEN Len(s1)
    ELSE LevRows(s1, s2, 1, [j \in 1..(Len(s2) + 1) |-> j - 1])

SuggestionCandidate(text, score, suggestion_type, frequency) ==
    [text |-> text, score |-> score, suggestion_type |-> suggestion_type,
     frequency |-> frequency]

\* step 1: the titles, in index order
RECURSIVE TitleCandidates(_, _)
TitleCandidates(as, query) ==
    IF as = <<>> THEN <<>>
    ELSE (IF ToLowercase(Head(as).title) = query THEN <<>>
          ELSE IF StartsWith(ToLowercase(Head(as).title), query)
          THEN <<SuggestionCandidate(Head(as).title, 100, "completion", 100)>>
          ELSE IF Contains(ToLowercase(Head(as).title), query)
          THEN <<SuggestionCandidate(Head(as).title, 90, "correction", 90)>>
          ELSE <<>>)
         \o TitleCandidates(Tail(as), query)

\* step 2: the common terms, in the order `terms` of the hash map
RECURSIVE TermCandidates(_, _, _)
TermCandidates(terms, common_terms, query) ==
    IF terms = <<>> THEN <<>>
    ELSE (IF ToLowercase(Head(terms)) = query THEN <<>>
          ELSE IF StartsWith(ToLowercase(Head(terms)), query)
          THEN <<SuggestionCandidate(Head(terms), 95, "completion", common_terms[Head(terms)])>>
          ELSE IF Contains(ToLowercase(Head(terms)), query)
          THEN <<SuggestionCandidate(Head(terms), 85, "correction", common_terms[Head(terms)])>>
          ELSE <<>>)
         \o TermCandidates(Tail(terms), common_terms, query)

\* step 3: the common terms within edit distance min(query.len(), 3) that
\* are no candidate yet
RECURSIVE EditCandidates(_, _, _, _)
EditCandidateAt(terms, common_terms, query, candidates, distance) ==
    EditCandidates(Tail(terms), common_terms, query,
        IF distance <= Min(Len(Bytes(query)), 3)
        THEN Append(candidates,
                    SuggestionCandidate(Head(terms), 80 - distance * 5, "correction",
                                        common_terms[Head(terms)]))
        ELSE candidates)

EditCandidates(terms, common_terms, query, candidates) ==
    IF terms = <<>> THEN candidates
    ELSE IF ToLowercase(Head(terms)) = query
            \/ \E i \in DOMAIN candidates :
                  ToLowercase(candidates[i].text) = ToLowercase(Head(terms))
    THEN EditCandidates(Tail(terms), common_terms, query, candidates)
    ELSE EditCandidateAt(terms, common_terms, query, candidates,
                         LevenshteinDistance(query, ToLowercase(Head(terms))))

WidenedByEdits(terms, common_terms, query, candidates) ==
    IF Len(candidates) < 5 THEN EditCandidates(terms, common_terms, query, candidates)
    ELSE candidates

\* the candidates left in arrival order
Unsorted(sorted, rest) == sorted \o rest

\* sort_by(score descending, then frequency descending): stable
CandidateBefore(a, b) ==
    IF a.score # b.score THEN a.score > b.score ELSE a.frequency > b.frequency

RECURSIVE InsertCandidate(_, _)
InsertCandidate(sorted, x) ==
    IF sorted = <<>> THEN <<x>>
    ELSE IF CandidateBefore(x, Head(sorted)) THEN <<x>> \o sorted
    ELSE <<Head(sorted)>> \o InsertCandidate(Tail(sorted), x)

RECURSIVE SortCandidates(_, _)
SortCandidates(sorted, rest) ==
    IF rest = <<>> THEN sorted
    ELSE SortCandidates(InsertCandidate(sorted, Head(rest)), Tail(rest))

\* sort_by(|a, b| b.1.cmp(&a.1)) over (term, frequency): stable
RECURSIVE InsertByFrequency(_, _, _)
InsertByFrequency(sorted, term, common_terms) ==
    IF sorted = <<>> THEN <<term>>
    ELSE IF common_terms[term] > common_terms[Head(sorted)] THEN <<term>> \o sorted
    ELSE <<Head(sorted)>> \o InsertByFrequency(Tail(sorted), term, common_terms)

RECURSIVE SortByFrequency(_, _, _)
SortByFrequency(sorted, rest, common_terms) ==
    IF rest = <<>> THEN sorted
    ELSE SortByFrequency(InsertByFrequency(sorted, Head(rest), common_terms), Tail(rest),
                         common_terms)

\* iter().take(n)
Take(s, n) == SubSeq(s, 1, Min(n, Len(s)))

\* the suggestions shown at once
SuggestionLimit == 10

\* a SearchSuggestion; score and frequency are those of the candidate it was
\* made from (they rank it and are not part of what the host receives)
SearchSuggestion(text, suggestion_type, matched_text, suggestion_text, score, frequency) ==
    [text |-> text, suggestion_type |-> suggestion_type, matched_text |-> matched_text,
     suggestion_text |-> suggestion_text, score |-> score, frequency |-> frequency]

\* the split of a completion at query.len() bytes of the original text
SplitSuggestion(c, matched, suggestion) ==
    IF matched.panic \/ suggestion.panic THEN Panicked
    ELSE Fine(<<SearchSuggestion(c.text, c.suggestion_type, Chars(matched.val),
                                 Chars(suggestion.val), c.score, c.frequency)>>)

SuggestionOf(c, query) ==
    IF c.suggestion_type = "completion" /\ StartsWith(ToLowercase(c.text), query)
    THEN SplitSuggestion(c, StrSlice(Bytes(c.text), 0, Len(Bytes(query))),
                            StrSlice(Bytes(c.text), Len(Bytes(query)), Len(Bytes(c.text))))
    ELSE Fine(<<SearchSuggestion(c.text, c.suggestion_type, query, c.text, c.score,
                                 c.frequency)>>)

RECURSIVE SuggestionsOf(_, _)
SuggestionsOf(candidates, query) ==
    IF candidates = <<>> THEN Fine(<<>>)
    ELSE Cat(SuggestionOf(Head(candidates), query), SuggestionsOf(Tail(candidates), query))

\* the most frequent common terms, for an empty query
PopularTerms(terms, common_terms) ==
    Fine([i \in DOMAIN terms |->
            SearchSuggestion(terms[i], "completion", <<>>, terms[i], 0, common_terms[terms[i]])])

Suggested(index, query, terms) ==
    IF query = <<>>
    THEN PopularTerms(Take(SortByFrequency(<<>>, terms, index.common_terms), SuggestionLimit),
                      index.common_terms)
    ELSE SuggestionsOf(
            Take(SortCandidates(<<>>,
                    WidenedByEdits(terms, index.common_terms, query,
                        TitleCandidates(index.articles, query)
                        \o TermCandidates(terms, index.common_terms, query))),
                 SuggestionLimit),
            query)

\* get_search_suggestions(search_index, query): [panic, val]; `seed` fixes the
\* order in which common_terms is iterated
GetSearchSuggestions(index, query, seed) ==
    Suggested(index, ToLowercase(Trim(query)), IterStrs(DOMAIN index.common_terms, seed))

----------------------------------------------------------------------------
(* search engine: matching and pagination *)

\* str::parse::<usize>: digits, at most one leading '+', within usize
ParseUsize(s) ==
    LET digits == IF s # <<>> /\ s[1] = 43 THEN Tail(s) ELSE s
    IN IF digits = <<>> \/ \E i \in DOMAIN digits : ~IsAsciiDigit(digits[i]) THEN None
       ELSE IF Len(digits) > 4 \/ Num(digits, 0, Len(digits)) > UsizeMax THEN None
       ELSE Some(Num(digits, 0, Len(digits)))

\* extract_article_id_from_heading: the number before the first ':'
ExtractArticleIdFromHeading(heading_id) ==
    IF \A i \in DOMAIN heading_id : heading_id[i] # ChColon THEN None
    ELSE LET colon_pos == CHOOSE i \in DOMAIN heading_id :
                              heading_id[i] = ChColon
                              /\ \A j \in 1..(i - 1) : heading_id[j] # ChColon
         IN ParseUsize(SubSeq(heading_id, 1, colon_pos - 1))

Lookup(m, k) == IF k \in DOMAIN m THEN m[k] ELSE {}

\* the scores of the seven steps
Score1 == 115
Score2 == 99
Score3 == 90
Score4 == 85
Score5 == 80
Score6 == 75
Score7 == 50

\* a pass over the articles in index order: those not seen that satisfy Cond
RECURSIVE TitlePass(_, _, _, _, _)
TitlePass(as, i, seen, q, step) ==
    IF i >= Len(as) THEN <<>>
    ELSE LET title_lower == ToLowercase(as[i + 1].title)
             hit == CASE step = 1 -> StartsWith(title_lower, q) /\ title_lower # q
                      [] step = 2 -> i \notin seen /\ Contains(title_lower, q)
                      [] step = 3 -> i \notin seen /\ title_lower = q
                      [] OTHER    -> Contains(ToLowercase(as[i + 1].content), q)
         IN (IF hit THEN <<i>> ELSE <<>>) \o TitlePass(as, i + 1, seen, q, step)

\* a pass that does not look at the articles already seen
PostingPassUnseen(ids, seen, n, check_range) ==
    SelectSeq(ids, LAMBDA id : ~(check_range /\ id >= n))

\* a pass over posting ids in the order `ids`: those not seen (and in range
\* when asked), once each
RECURSIVE PostingPass(_, _, _, _)
PostingPass(ids, seen, n, check_range) ==
    IF ids = <<>> THEN <<>>
    ELSE LET id == Head(ids)
             skip == id \in seen \/ (check_range /\ id >= n)
         IN (IF skip THEN <<>> ELSE <<id>>)
            \o PostingPass(Tail(ids), IF skip THEN seen ELSE seen \cup {id}, n, check_range)

\* step 5 maps every heading id to the article id it names, dropping the ids
\* that name none
RECURSIVE HeadingArticleIds(_)
HeadingArticleIds(heading_ids) ==
    IF heading_ids = <<>> THEN <<>>
    ELSE ExtractArticleIdFromHeading(Head(heading_ids)) \o HeadingArticleIds(Tail(heading_ids))

Scored(ids, score) == [i \in DOMAIN ids |-> <<ids[i], score>>]

\* sort_by(|a, b| b.1.partial_cmp(&a.1)): stable, highest score first
RECURSIVE InsertByScore(_, _)
InsertByScore(sorted, x) ==
    IF sorted = <<>> THEN <<x>>
    ELSE IF x[2] > Head(sorted)[2] THEN <<x>> \o sorted
    ELSE <<Head(sorted)>> \o InsertByScore(Tail(sorted), x)

RECURSIVE SortByScore(_, _)
SortByScore(sorted, rest) ==
    IF rest = <<>> THEN sorted
    ELSE SortByScore(InsertByScore(sorted, Head(rest)), Tail(rest))

\* the matches so far, [found, seen], and those a step adds with its score
Matched(m, ids, score) ==
    [found |-> m.found \o Scored(ids, score), seen |-> m.seen \cup Range(ids)]

AfterTitlePass(as, q, step, score, m) ==
    Matched(m, TitlePass(as, 0, m.seen, q, step), score)

AfterPostingPass(ids, n, check_range, score, m) ==
    Matched(m, PostingPass(ids, m.seen, n, check_range), score)

\* a step 7 that runs whatever was found before
AlwaysContentPass(as, q, found) == found \o Scored(TitlePass(as, 0, {}, q, 7), Score7)

\* step 7 runs when the six steps before it found nothing
WithContentPass(as, q, found) ==
    IF found = <<>> THEN Scored(TitlePass(as, 0, {}, q, 7), Score7) ELSE found

\* find_matched_articles; o4, o5, o6 are the orders in which the posting sets
\* of steps 4, 5 and 6 are iterated
FindMatchedArticles(index, query, o4, o5, o6) ==
    SortByScore(<<>>, WithContentPass(index.articles, query,
        AfterPostingPass(o6, Len(index.articles), TRUE, Score6,
        AfterPostingPass(HeadingArticleIds(o5), Len(index.articles), TRUE, Score5,
        AfterPostingPass(o4, Len(index.articles), FALSE, Score4,
        AfterTitlePass(index.articles, query, 3, Score3,
        AfterTitlePass(index.articles, query, 2, Score2,
        AfterTitlePass(index.articles, query, 1, Score1,
                       [found |-> <<>>, seen |-> {}])))))).found))

\* a SearchRequest; search_type is empty when the request names none
SearchRequest(query, page, page_size) ==
    [query |-> query, search_type |-> "", page |-> page, page_size |-> page_size]

AutocompleteRequest(query) ==
    [query |-> query, search_type |-> "autocomplete", page |-> 1, page_size |-> 10]

\* the pagination of perform_search over `total` items:
\* [panic, total_pages, start, end]
PaginateSearch(total, req, checks) ==
    LET sum == total + req.page_size
        sum1 == Wrap(sum) - 1
        div_by_zero == req.page_size = 0
        total_pages == IF div_by_zero THEN 0 ELSE Wrap(sum1) \div req.page_size
        sub == req.page - 1
        prod == Wrap(sub) * req.page_size
        start_idx == Wrap(prod)
        sum2 == start_idx + req.page_size
        end_idx == Min(Wrap(sum2), total)
        overflow == Overflows(sum) \/ Overflows(sum1) \/ Overflows(sub) \/ Overflows(prod)
                    \/ Overflows(sum2)
        bad_slice == start_idx < total /\ start_idx > end_idx
    IN [panic |-> div_by_zero \/ (checks /\ overflow) \/ bad_slice,
        total_pages |-> total_pages, start |-> start_idx, end |-> end_idx]

\* split_query_to_terms: the trimmed, lowercased query, if anything is left
SplitQueryToTerms(query) ==
    LET clean_query == ToLowercase(Trim(query))
    IN IF clean_query = <<>> THEN <<>> ELSE <<clean_query>>

\* a SearchResult (time_ms is filled in by the entry point from the host's clock)
SearchResult(items, total, page, page_size, total_pages, query, suggestions) ==
    [kind |-> "ok", items |-> items, total |-> total, page |-> page, page_size |-> page_size,
     total_pages |-> total_pages, query |-> query, suggestions |-> suggestions]

\* the page pg of the items, and the suggestions
SearchPage(all_items, req, pg, suggestions) ==
    IF pg.panic \/ suggestions.panic THEN Panic
    ELSE SearchResult(IF pg.start < Len(all_items) THEN Slice(all_items, pg.start, pg.end)
                      ELSE <<>>,
                      Len(all_items), req.page, req.page_size, pg.total_pages,
                      ToLowercase(req.query), suggestions.val)

SearchPaged(all_items, req, checks, suggestions) ==
    IF all_items.panic THEN Panic
    ELSE SearchPage(all_items.val, req, PaginateSearch(Len(all_items.val), req, checks),
                    suggestions)

SearchResultItem(article, score, title, heading_tree) ==
    [id |-> article.id, title |-> title, summary |-> article.summary, url |-> article.url,
     score |-> score, heading_tree |-> heading_tree, page_type |-> article.page_type]

ItemOf(article, score, tree, title) ==
    IF tree.panic \/ title.panic THEN Panicked
    ELSE Fine(<<SearchResultItem(article, score, Chars(title.val), tree.tree)>>)

\* the items of the matched articles; a match whose id is no ordinal of the
\* index gives no item
RECURSIVE ItemsOf(_, _, _, _)
ItemsOf(matched, index, terms, seed) ==
    IF matched = <<>> THEN Fine(<<>>)
    ELSE IF Head(matched)[1] >= Len(index.articles)
    THEN ItemsOf(Tail(matched), index, terms, seed)
    ELSE Cat(ItemOf(index.articles[Head(matched)[1] + 1], Head(matched)[2],
                    BuildHeadingTreeWithMatches(
                        index.articles[Head(matched)[1] + 1], terms, index,
                        IterStrs(HeadingMapIds(index.articles[Head(matched)[1] + 1], index),
                                 seed)),
                    HighlightTitle(index.articles[Head(matched)[1] + 1].title, terms[1])),
             ItemsOf(Tail(matched), index, terms, seed))

SearchedFor(index, req, terms, o4, o5, o6, seed, checks) ==
    IF ToLowercase(req.query) = <<>> \/ terms = <<>>
    THEN SearchResult(<<>>, 0, req.page, req.page_size, 0, ToLowercase(req.query), <<>>)
    ELSE SearchPaged(ItemsOf(FindMatchedArticles(index, terms[1], o4, o5, o6), index, terms,
                             seed),
                     req, checks,
                     GetSearchSuggestions(index, ToLowercase(req.query), seed))

\* perform_search; o4, o5, o6 and seed are the orders in which the hash
\* collections of the index are iterated
PerformSearch(index, req, o4, o5, o6, seed, checks) ==
    SearchedFor(index, req, SplitQueryToTerms(ToLowercase(req.query)), o4, o5, o6, seed,
                checks)

Completed(query, suggestions) ==
    IF suggestions.panic THEN Panic
    ELSE SearchResult(<<>>, Len(suggestions.val), 1, Len(suggestions.val), 1, query,
                      suggestions.val)

\* perform_autocomplete
PerformAutocomplete(index, req, seed) ==
    IF ToLowercase(req.query) = <<>>
    THEN SearchResult(<<>>, 0, 1, 10, 0, ToLowercase(req.query), <<>>)
    ELSE Completed(ToLowercase(req.query),
                   GetSearchSuggestions(index, ToLowercase(req.query), seed))

----------------------------------------------------------------------------
(* Offline: the search artifact.  Online: the search entry point *)

\* SearchBuilder::save_search_index: nothing is written when the build fails
SaveSearchIndex(seed) ==
    \E built \in {BuildSearchIndex(sb_articles, seed)} :
       /\ filter_file # <<>> /\ search_file = <<>>
       /\ built.ok
       /\ search_file' = SearchArtifact(built.val, seed)
       /\ UNCHANGED <<articles, sb_articles, filter_file, INDEX, overflow_checks, call, ret>>
       /\ UNCHANGED <<sync, threads>>

QueryInputs == {<<>>, <<97>>, <<65>>, <<99>>, <<104>>, <<122, 122>>}
SearchPageInputs == {0, 1, 2}
SearchPageSizeInputs == {0, 1, 10, UsizeMax}

\* search_articles(index_data, request_json): the request is parsed, the index
\* decoded, the search run. (The elapsed time the result also carries is read
\* from the host's clock and is left out.)
SearchArticles(data, json_ok, req) ==
    /\ call' = [op |-> "search_articles", data |-> data, json_ok |-> json_ok, req |-> req]
    /\ IF ~json_ok THEN ret' = Err("ParseRequest")
       ELSE \E decoded \in {SearchIndexFromCompressed(data, SearchMaxVersion)},
               q \in {ToLowercase(Trim(ToLowercase(req.query)))} :
               IF decoded.err # "none" THEN ret' = Err(decoded.err)
               ELSE IF req.search_type = "autocomplete"
               THEN \E seed \in HashSeeds : ret' = PerformAutocomplete(decoded.val, req, seed)
               ELSE \E o4 \in Orders(Lookup(decoded.val.title_term_index, q)),
                       o5 \in Orders(Lookup(decoded.val.heading_term_index, q)),
                       o6 \in Orders(Lookup(decoded.val.content_term_index, q)),
                       seed \in HashSeeds :
                        ret' = PerformSearch(decoded.val, req, o4, o5, o6, seed,
                                             overflow_checks)
    /\ UNCHANGED <<articles, sb_articles, filter_file, search_file, INDEX, overflow_checks>>
    /\ UNCHANGED <<sync, threads>>

----------------------------------------------------------------------------
(* A multi-threaded host: each thread makes one call of the filter engine   *)
(* at a time and takes the steps of that call one by one                    *)

Threads == {1, 2, 3}

\* a thread that has not called yet. pc is the step it stands at, op and arg
\* the call it makes, local the index it decoded, ret what the call returned,
\* seen the content of INDEX it read under the lock
Idle ==
    [pc |-> "idle", op |-> "none", arg |-> <<>>, local |-> <<>>, ret |-> NoRet, seen |-> <<>>]

----------------------------------------------------------------------------
(* The system: the indexer run and the host's calls, in any order *)

Init ==
    /\ articles = <<>>
    /\ sb_articles = <<>>
    /\ filter_file = <<>>
    /\ search_file = <<>>
    /\ INDEX = <<>>
    /\ overflow_checks \in BOOLEAN
    /\ call = [op |-> "none"]
    /\ ret = NoRet
    /\ sync = [once |-> "incomplete", mutex |-> "free"]
    /\ threads = [t \in Threads |-> Idle]

\* the parameter sets the host uses while the lifecycle is explored
LifecycleParams ==
    {FilterParams(None, None, None, None, None),
     FilterParams(Some(<<TagR>>), Some("oldest"), Some(1), Some(2), None)}

LifecycleRequests ==
    {SearchRequest(<<97>>, 1, 10), SearchRequest(<<97>>, 0, 1), SearchRequest(<<97>>, 1, 0)}

\* the calls of search_articles while the lifecycle is explored:
\* <<index_data, request parses, request>>
SearchCalls ==
    {<<search_file, TRUE, req>> : req \in LifecycleRequests}
    \cup {<<data, TRUE, SearchRequest(<<97>>, 1, 10)>> :
            data \in {filter_file, WithMajor(search_file, SearchMaxVersion),
                      WithMajor(search_file, SearchMaxVersion + 1)}}
    \cup {<<search_file, FALSE, SearchRequest(<<97>>, 1, 10)>>}

Next ==
    \/ \E a \in LifecyclePool : AddArticle(a)
    \/ \E seed \in HashSeeds : SaveFilterIndex(seed)
    \/ \E seed \in HashSeeds : SaveSearchIndex(seed)
    \/ \E data \in InitInputs : FilterInit(data)
    \/ GetAllTags
    \/ \E json_ok \in BOOLEAN, params \in LifecycleParams : FilterArticles(json_ok, params)
    \/ \E c \in SearchCalls : SearchArticles(c[1], c[2], c[3])

Spec == Init /\ [][Next]_vars

\* the filter engine under every parameter set of the model, on every corpus
\* the indexer can write from the pool
FilterNext ==
    \/ \E a \in ArticlePool : AddArticle(a)
    \/ SaveFilterIndex(0)
    \/ FilterInit(filter_file)
    \/ \E params \in ParamInputs : FilterArticles(TRUE, params)

FilterSpec == Init /\ [][FilterNext]_vars

\* the articles the search engine is explored on: for the query "wa", a
\* title that starts with it, one that equals it, a heading that carries it,
\* and contents with the word and with the bare substring
StrWa == <<119, 97>>          \* "wa"
StrZz == <<122, 122>>         \* "zz"
ArticleWax == Extracted(<<120>>, <<87, 97, 120>>, Date(2024, 1, 1, 0), <<>>, StrZz, <<>>)
ArticleWA == Extracted(<<101>>, <<87, 65>>, Date(2024, 1, 1, 0), <<>>, StrZz, <<>>)
ArticleHead ==
    Extracted(<<49>>, <<90, 104>>, Date(2024, 1, 1, 0), <<>>, StrWa \o <<32>> \o StrZz,
              <<Heading(1, StrWa, 0, Some(5))>>)
ArticleBody ==
    Extracted(<<98>>, <<90, 122>>, Date(2024, 1, 1, 0), <<>>, StrWa \o <<32>> \o StrZz, <<>>)
ArticleDeep ==
    Extracted(<<100>>, <<90, 121>>, Date(2024, 1, 1, 0), <<>>,
              StrZz \o <<32, 115>> \o StrWa \o <<98>>, <<>>)

SearchPool == {ArticleWax, ArticleWA, ArticleHead, ArticleBody, ArticleDeep}

\* the requests of the host: "Wa", "zz" and "z" as searches, the empty query
\* and "w" as autocomplete requests
SearchRequests ==
    {SearchRequest(<<87, 97>>, 1, 10), SearchRequest(StrZz, 1, 10),
     SearchRequest(<<122>>, 1, 10), AutocompleteRequest(<<>>), AutocompleteRequest(<<119>>)}

\* the search engine on every corpus the indexer can write from the pool
SearchNext ==
    \/ \E a \in SearchPool : AddArticle(a)
    \/ SaveFilterIndex(0)
    \/ SaveSearchIndex(0)
    \/ \E req \in SearchRequests : SearchArticles(search_file, TRUE, req)

SearchSpec == Init /\ [][SearchNext]_vars

----------------------------------------------------------------------------
(* The text functions of the search engine on their own: suggestions, title *)
(* highlighting and paragraph matches, applied to inputs of every shape     *)

StrWasm == <<119, 97, 115, 109>>                                   \* "wasm"
StrWashington == <<119, 97, 115, 104, 105, 110, 103, 116, 111, 110>>   \* "washington"
StrIs == <<304, 115>>                                              \* "İs"

\* an index with no more than titles and common terms
SuggestIndex(titles, common_terms) ==
    ArticleSearchIndex(EmptyMap,
        [i \in DOMAIN titles |->
            Extracted(<<ChDigit(i)>>, titles[i], Date(2024, 1, 1, 0), <<>>, StrZz, <<>>)],
        EmptyMap, EmptyMap, common_terms, EmptyMap)

\* "wasm" (42) and "washington" (5)
WasIndex ==
    SuggestIndex(<<>>, [t \in {StrWasm, StrWashington} |-> IF t = StrWasm THEN 42 ELSE 5])

\* twelve terms "w0" .. "w9", "wa", "wb", the frequencies not in the order of
\* the terms, under the titles "Wasm" and "Swab"
ManyIndex ==
    SuggestIndex(<<<<87, 97, 115, 109>>, <<83, 119, 97, 98>>>>,
                 [t \in {<<119, ChDigit(d)>> : d \in 0..9} \cup {<<119, 97>>, <<119, 98>>} |->
                     ((t[2] * 7) % 11) + 1])

\* a title that begins with a character whose lowercase is longer in bytes
DottedIndex == SuggestIndex(<<StrIs>>, [t \in {StrZz} |-> 1])

SuggestIndexes == {WasIndex, ManyIndex, DottedIndex}

\* "was", "Was", "wasn", "w", " wa ", "i", "İ"
SuggestQueries ==
    {<<119, 97, 115>>, <<87, 97, 115>>, <<119, 97, 115, 110>>, <<119>>, <<32, 119, 97, 32>>,
     <<105>>, <<304>>}

\* "Wasm", "使用WASM", "wa wa", "aaa", "İab", "İç", ""
TitleInputs ==
    {<<87, 97, 115, 109>>, <<20351, 29992, 87, 65, 83, 77>>, <<119, 97, 32, 119, 97>>,
     <<97, 97, 97>>, <<304, 97, 98>>, <<304, 231>>, <<>>}

\* "wa", "WASM", "a", "aa", "İ", "ç", ""
TextQueries ==
    {StrWa, <<87, 65, 83, 77>>, <<97>>, <<97, 97>>, <<304>>, <<231>>, <<>>}

\* "wa zz", "zz swab", "中 wa", "İçerik", "  "
ContentInputs ==
    {StrWa \o <<32>> \o StrZz, StrZz \o <<32, 115>> \o StrWa \o <<98>>,
     <<20013, 32, 119, 97>>, <<304, 231, 101, 114, 105, 107>>, <<32, 32>>}

\* the heading entries a paragraph is taken under: the root without a text
\* and a heading "Zz" of level 1, from the start of the content or behind it,
\* up to the second byte, to the end of the content or beyond it
HeadingInputs(content) ==
    {HeadingIndexEntry(<<48, 58, 48>>, level, IF level = 0 THEN <<>> ELSE <<90, 122>>,
                       start_position, end_position, None, <<>>) :
        level \in {0, 1}, start_position \in {0, 1},
        end_position \in {2, ByteLen(content), ByteLen(content) + 1}}

\* "wa", "a", "İ", "ç"
ParagraphQueries == {StrWa, <<97>>, <<304>>, <<231>>}

\* perform_autocomplete over an index
Autocomplete(index, query, seed) ==
    /\ call' = [op |-> "perform_autocomplete", index |-> index, query |-> query]
    /\ ret' = PerformAutocomplete(index, AutocompleteRequest(query), seed)
    /\ UNCHANGED <<articles, sb_articles, filter_file, search_file, INDEX, overflow_checks>>
    /\ UNCHANGED <<sync, threads>>

\* highlight_title(title, query)
Highlight(title, query) ==
    /\ call' = [op |-> "highlight_title", title |-> title, query |-> query]
    /\ \E r \in {HighlightTitle(title, query)} :
          ret' = IF r.panic THEN Panic ELSE [kind |-> "ok", val |-> Chars(r.val)]
    /\ UNCHANGED <<articles, sb_articles, filter_file, search_file, INDEX, overflow_checks>>
    /\ UNCHANGED <<sync, threads>>

\* find_matches_in_paragraph(article, heading, terms)
ParagraphMatches(content, heading, terms) ==
    /\ call' = [op |-> "find_matches_in_paragraph", content |-> content, heading |-> heading,
                terms |-> terms]
    /\ \E r \in {FindMatchesInParagraph(
                    Extracted(<<48>>, heading.text, Date(2024, 1, 1, 0), <<>>, content, <<>>),
                    heading, terms)} :
          ret' = IF r.panic THEN Panic
                 ELSE [kind |-> "ok", some |-> r.some, val |-> r.content,
                       matched_terms |-> r.matched_terms]
    /\ UNCHANGED <<articles, sb_articles, filter_file, search_file, INDEX, overflow_checks>>
    /\ UNCHANGED <<sync, threads>>

TextNext ==
    \/ \E index \in SuggestIndexes, query \in SuggestQueries, seed \in HashSeeds :
          Autocomplete(index, query, seed)
    \/ \E title \in TitleInputs, query \in TextQueries : Highlight(title, query)
    \/ \E content \in ContentInputs, query \in ParagraphQueries :
          \E heading \in HeadingInputs(content) :
             ParagraphMatches(content, heading, SplitQueryToTerms(query))

TextSpec == Init /\ [][TextNext]_vars

----------------------------------------------------------------------------
(* indexer: the positions of the headings collected from a document *)

\* the headings as extract_headings_from_element collects them: in document
\* order, the position it was handed (0) and no end
Collected(levels, texts) ==
    [i \in DOMAIN levels |-> Heading(levels[i], texts[i], 0, None)]

\* headings[i] after its text was looked for in the lowercased content: when
\* found, its position is the offset and its end the position headings[i + 1]
\* has at that time, or the length of the content for the last heading
PositionedAt(headings, content, i, pos) ==
    IF pos < 0 THEN headings
    ELSE [headings EXCEPT ![i + 1] =
             Heading(@.level, @.text, pos,
                     IF i < Len(headings) - 1 THEN Some(headings[i + 2].position)
                     ELSE Some(ByteLen(content)))]

\* the loop over i in 0..headings.len()
RECURSIVE PositionHeadings(_, _, _)
PositionHeadings(headings, content, i) ==
    IF i >= Len(headings) THEN headings
    ELSE PositionHeadings(
             PositionedAt(headings, content, i,
                          FindFrom(Bytes(ToLowercase(content)), 0,
                                   Bytes(ToLowercase(headings[i + 1].text)))),
             content, i + 1)

\* extract_headings(handle, content) of the indexer, from the headings
\* collected out of the document on
IndexerExtractHeadings(collected, content) == PositionHeadings(collected, content, 0)

----------------------------------------------------------------------------
(* The builders' functions on their own: the keyword extractor, the         *)
(* indexer's heading positions, the heading hierarchy and the search index  *)

\* "a b", "ab c", "c ab", "x y z", "wa-zz x_1", "12 ab 34", "ab ab", "a1 2b 77",
\* "中", "中文字", "中文字词", "a中b", "Ab，cd", "，，", "", "  "
KeywordTexts ==
    {<<97, 32, 98>>, <<97, 98, 32, 99>>, <<99, 32, 97, 98>>, <<120, 32, 121, 32, 122>>,
     <<119, 97, 45, 122, 122, 32, 120, 95, 49>>, <<49, 50, 32, 97, 98, 32, 51, 52>>,
     <<97, 98, 32, 97, 98>>, <<97, 49, 32, 50, 98, 32, 55, 55>>,
     <<20013>>, <<20013, 25991, 23383>>, <<20013, 25991, 23383, 35789>>,
     <<97, 20013, 98>>, <<65, 98, 65292, 99, 100>>, <<65292, 65292>>, <<>>, <<32, 32>>}

\* a word of ten Han characters that ends every content, so that the content
\* has the 30 bytes the indexer asks of a page
StrFiller ==
    <<23383, 23383, 23383, 23383, 23383, 23383, 23383, 23383, 23383, 23383>>

\* the texts of the headings of a page: "ab", "cd", "ef", "gh"
HeadingTexts == <<<<97, 98>>, <<99, 100>>, <<101, 102>>, <<103, 104>>>>

\* the lists of up to n levels
RECURSIVE LevelLists(_)
LevelLists(n) ==
    IF n = 0 THEN {<<>>}
    ELSE LevelLists(n - 1)
         \cup {Append(ls, l) : ls \in {x \in LevelLists(n - 1) : Len(x) = n - 1}, l \in 1..3}

\* the levels of the headings of a page, in document order: every list of up
\* to three levels, and five lists of four
HeadingLevels ==
    LevelLists(3)
    \cup {<<1, 2, 3, 2>>, <<1, 2, 2, 1>>, <<2, 1, 3, 3>>, <<1, 3, 2, 3>>, <<1, 2, 2, 2>>}

\* the contents of a page: "ab cd ef gh" with every heading in its place, and
\* "ef cd x", where the headings stand in another order and two are missing
ContentInOrder ==
    <<97, 98, 32, 99, 100, 32, 101, 102, 32, 103, 104, 32>> \o StrFiller
ContentOutOfOrder == <<101, 102, 32, 99, 100, 32, 120, 32>> \o StrFiller
\* "İİİ ab cd": the lowercased content is longer than the content
ContentDotted == StrFiller \o <<32, 304, 304, 304, 32, 97, 98, 32, 99, 100>>
PageContents == {ContentInOrder, ContentOutOfOrder, ContentDotted}

\* a page with the headings the indexer gives it
StrPageA == <<112, 47, 97>>   \* "p/a"
PageWith(id, title, texts, levels, content) ==
    Extracted(id, title, Date(2024, 1, 1, 0), <<>>, content,
              IndexerExtractHeadings(Collected(levels, SubSeq(texts, 1, Len(levels))),
                                     content))
PageOf(id, title, levels, content) == PageWith(id, title, HeadingTexts, levels, content)

\* the pages a heading tree is built for: the headings "ab", "cd", "ef", "gh"
\* over "ab cd ef gh", and the headings "gh", "ef", "cd", "ab" over
\* "gh ef cd ab"
ContentReversed ==
    <<103, 104, 32, 101, 102, 32, 99, 100, 32, 97, 98, 32>> \o StrFiller
TreeLevels ==
    {<<1, 1>>, <<2, 1>>, <<1, 2, 2>>, <<1, 3, 2>>, <<1, 2, 3, 2>>, <<1, 2, 3, 3>>}
TreePages ==
    {PageOf(StrPageA, <<90, 104>>, levels, ContentInOrder) : levels \in TreeLevels}
    \cup {PageWith(StrPageA, <<90, 104>>,
                   <<HeadingTexts[4], HeadingTexts[3], HeadingTexts[2], HeadingTexts[1]>>,
                   levels, ContentReversed) : levels \in TreeLevels}
    \cup {Extracted(StrPageA, <<90, 104>>, Date(2024, 1, 1, 0), <<>>, ContentInOrder, <<>>)}

\* "ef", "gh"
TreeQueries == {HeadingTexts[3], HeadingTexts[4]}

\* an index with no more than the headings of one page
HeadingsIndex(article) ==
    ArticleSearchIndex(EmptyMap, <<article>>, ExtractHeadings(article), EmptyMap, EmptyMap,
                       EmptyMap)

\* extract_keywords(text)
Keywords(text) ==
    /\ call' = [op |-> "extract_keywords", text |-> text]
    /\ ret' = [kind |-> "ok", val |-> ExtractKeywords(text)]
    /\ UNCHANGED <<articles, sb_articles, filter_file, search_file, INDEX, overflow_checks>>
    /\ UNCHANGED <<sync, threads>>

\* the indexer's extract_headings over the headings collected from a page
PositionedHeadings(levels, content) ==
    /\ call' = [op |-> "extract_headings", content |-> content,
                collected |-> Collected(levels, SubSeq(HeadingTexts, 1, Len(levels)))]
    /\ ret' = [kind |-> "ok", val |-> IndexerExtractHeadings(call'.collected, content)]
    /\ UNCHANGED <<articles, sb_articles, filter_file, search_file, INDEX, overflow_checks>>
    /\ UNCHANGED <<sync, threads>>

\* SearchBuilder::extract_headings over a page of the indexer
HeadingIndexOf(article) ==
    /\ call' = [op |-> "build_heading_hierarchy", article |-> article]
    /\ ret' = [kind |-> "ok", val |-> ExtractHeadings(article)]
    /\ UNCHANGED <<articles, sb_articles, filter_file, search_file, INDEX, overflow_checks>>
    /\ UNCHANGED <<sync, threads>>

\* the pages the index is built from: "p/h" with the title "中" and the
\* content "中文 …", "p/a" with the title "Zh" and the headings "ab" and "cd",
\* "1" with the title "Wa" and the heading "ab", "p/b" with the title "Ab cd"
\* and no heading
PageHan ==
    Extracted(<<112, 47, 104>>, <<20013>>, Date(2024, 1, 1, 0), <<>>,
              <<20013, 25991, 32>> \o StrFiller, <<>>)
PageHeads == PageOf(StrPageA, <<90, 104>>, <<1, 2>>, ContentInOrder)
PageOne == PageOf(<<49>>, <<87, 97>>, <<1>>, ContentInOrder)
PagePlain ==
    Extracted(<<112, 47, 98>>, <<65, 98, 32, 99, 100>>, Date(2024, 1, 1, 0), <<>>,
              StrFiller, <<>>)
BuildPool == {PageHan, PageHeads, PageOne, PagePlain}

\* the corpora of one page and of two different pages
Corpora ==
    {<<a>> : a \in BuildPool}
    \cup {<<a, b>> : <<a, b>> \in {p \in BuildPool \X BuildPool : p[1] # p[2]}}

\* the corpora that are searched, for the heading texts "ab" and "cd"
SearchedCorpora ==
    {<<PageHeads>>, <<PageOne>>, <<PageOne, PageHan>>, <<PagePlain, PageHeads>>,
     <<PageHan, PageOne>>}
BuiltQueries == {HeadingTexts[1], HeadingTexts[2]}

\* SearchBuilder::build_search_index over the pages added
IndexBuilt(as, seed) ==
    /\ call' = [op |-> "build_search_index", articles |-> as]
    /\ \E built \in {BuildSearchIndex(as, seed)} :
          ret' = IF built.ok THEN [kind |-> "ok", val |-> built.val] ELSE Err("NoArticles")
    /\ UNCHANGED <<articles, sb_articles, filter_file, search_file, INDEX, overflow_checks>>
    /\ UNCHANGED <<sync, threads>>

\* build_heading_tree_with_matches for a page, over the index of its headings
HeadingTree(article, query, seed) ==
    /\ call' = [op |-> "build_heading_tree_with_matches", article |-> article,
                query |-> query]
    /\ \E index \in {HeadingsIndex(article)} :
          \E r \in {BuildHeadingTreeWithMatches(article, SplitQueryToTerms(query), index,
                        IterStrs(HeadingMapIds(article, index), seed))} :
             ret' = IF r.panic THEN Panic ELSE [kind |-> "ok", val |-> r.tree]
    /\ UNCHANGED <<articles, sb_articles, filter_file, search_file, INDEX, overflow_checks>>
    /\ UNCHANGED <<sync, threads>>

BuildNext ==
    \/ \E text \in KeywordTexts : Keywords(text)
    \/ \E levels \in HeadingLevels, content \in PageContents :
          PositionedHeadings(levels, content)
    \/ \E levels \in HeadingLevels, content \in PageContents :
          HeadingIndexOf(PageOf(StrPageA, <<90, 104>>, levels, content))

BuildSpec == Init /\ [][BuildNext]_vars

\* perform_search over the index built from a corpus
SearchBuilt(as, req) ==
    /\ call' = [op |-> "perform_search", articles |-> as, req |-> req]
    /\ \E index \in {BuildSearchIndex(as, 0).val},
          q \in {ToLowercase(Trim(ToLowercase(req.query)))} :
          \E o4 \in Orders(Lookup(index.title_term_index, q)),
             o5 \in Orders(Lookup(index.heading_term_index, q)),
             o6 \in Orders(Lookup(index.content_term_index, q)),
             seed \in HashSeeds :
             ret' = PerformSearch(index, req, o4, o5, o6, seed, overflow_checks)
    /\ UNCHANGED <<articles, sb_articles, filter_file, search_file, INDEX, overflow_checks>>
    /\ UNCHANGED <<sync, threads>>

\* the index built from a corpus and what the engine makes of it
IndexNext ==
    \/ \E as \in Corpora : IndexBuilt(as, 0)
    \/ \E as \in SearchedCorpora, query \in BuiltQueries :
          SearchBuilt(as, SearchRequest(query, 1, 10))
    \/ \E article \in TreePages, query \in TreeQueries, seed \in HashSeeds :
          HeadingTree(article, query, seed)

IndexSpec == Init /\ [][IndexNext]_vars

----------------------------------------------------------------------------
(* The filter engine in a multi-threaded host. INDEX is the slot of the     *)
(* OnceCell, sync.once the cell's state, sync.mutex the Mutex in the slot.  *)

\* a cell whose get() hands out the slot in whatever state it is
CellGetUnchecked(state, slot) == slot

\* INDEX.get(): the slot once the cell is complete, None before
CellGet(state, slot) == IF state.once = "complete" THEN slot ELSE <<>>

\* the bytes the threads pass to load_index: the artifacts of two corpora and
\* bytes that do not decode
ArtifactOne == FilterArtifact(BuildFilterIndex(<<ArticleP>>).val, 0)
ArtifactTwo == FilterArtifact(BuildFilterIndex(<<Article1, ArticleS>>).val, 1)
ThreadInputs == {ArtifactOne, ArtifactTwo, <<>>}

\* the parameters the threads filter with: the defaults, and a limit that
\* overflows the page count
ThreadParams ==
    {FilterParams(None, None, None, None, None),
     FilterParams(None, None, None, Some(UsizeMax), None)}

\* a panic=abort build ends the process at the first panic
Alive == \A u \in Threads : threads[u].pc # "aborted"

Returned(th, r) == [th EXCEPT !.pc = "idle", !.ret = r]

\* a thread enters load_index, get_all_tags or filter_articles
Enter(t, op, arg) ==
    /\ Alive
    /\ threads[t].pc = "idle"
    /\ threads' = [threads EXCEPT ![t] =
                      [Idle EXCEPT !.pc = IF op = "load_index" THEN "decode" ELSE "get",
                                   !.op = op, !.arg = arg]]
    /\ UNCHANGED <<articles, sb_articles, filter_file, search_file, INDEX, overflow_checks,
                   call, ret, sync>>

\* load_index up to the cell: the bytes are decoded and converted into the
\* thread's own ArticleIndex
Decode(t) ==
    /\ Alive
    /\ threads[t].pc = "decode"
    /\ \E decoded \in {FilterIndexFromCompressed(threads[t].arg, FilterMaxVersion)} :
          threads' = [threads EXCEPT ![t] =
                         IF decoded.err # "none" THEN Returned(@, Err(decoded.err))
                         ELSE [@ EXCEPT !.pc = "get_or_init",
                                        !.local = <<ConvertFilterToArticleIndex(decoded.val)>>]]
    /\ UNCHANGED <<articles, sb_articles, filter_file, search_file, INDEX, overflow_checks,
                   call, ret, sync>>

\* INDEX.get_or_init: on a complete cell the thread's index is dropped; the
\* thread that finds the cell incomplete runs the initialiser; a thread that
\* finds it running waits
OnceInit(t) ==
    /\ Alive
    /\ threads[t].pc = "get_or_init"
    /\ sync.once # "running"
    /\ IF sync.once = "complete"
       THEN /\ threads' = [threads EXCEPT ![t] = Returned(@, [kind |-> "ok"])]
            /\ UNCHANGED sync
       ELSE /\ threads' = [threads EXCEPT ![t].pc = "store"]
            /\ sync' = [sync EXCEPT !.once = "running"]
    /\ UNCHANGED <<articles, sb_articles, filter_file, search_file, INDEX, overflow_checks,
                   call, ret>>

\* the initialiser's value is moved into the slot, field after field: the
\* articles, then the tag index
Store(t) ==
    /\ Alive
    /\ threads[t].pc = "store"
    /\ IF INDEX = <<>>
       THEN /\ INDEX' = <<[threads[t].local[1] EXCEPT !.tag_index = EmptyMap]>>
            /\ UNCHANGED threads
       ELSE /\ INDEX' = threads[t].local
            /\ threads' = [threads EXCEPT ![t].pc = "publish"]
    /\ UNCHANGED <<articles, sb_articles, filter_file, search_file, overflow_checks,
                   call, ret, sync>>

\* the cell is marked complete and load_index returns Ok
Publish(t) ==
    /\ Alive
    /\ threads[t].pc = "publish"
    /\ sync' = [sync EXCEPT !.once = "complete"]
    /\ threads' = [threads EXCEPT ![t] = Returned(@, [kind |-> "ok"])]
    /\ UNCHANGED <<articles, sb_articles, filter_file, search_file, INDEX, overflow_checks,
                   call, ret>>

\* INDEX.get().ok_or("索引未初始化")?
Get(t) ==
    /\ Alive
    /\ threads[t].pc = "get"
    /\ threads' = [threads EXCEPT ![t] =
                      IF CellGet(sync, INDEX) = <<>> THEN Returned(@, NotInitialized)
                      ELSE [@ EXCEPT !.pc = "lock"]]
    /\ UNCHANGED <<articles, sb_articles, filter_file, search_file, INDEX, overflow_checks,
                   call, ret, sync>>

\* index_mutex.lock().map_err(|_| "获取索引锁失败")?: the thread waits while
\* another holds the lock; a poisoned lock is refused
Lock(t) ==
    /\ Alive
    /\ threads[t].pc = "lock"
    /\ sync.mutex # "held"
    /\ IF sync.mutex = "poisoned"
       THEN /\ threads' = [threads EXCEPT ![t] = Returned(@, Err("LockFailed"))]
            /\ UNCHANGED sync
       ELSE /\ threads' = [threads EXCEPT ![t].pc = "locked"]
            /\ sync' = [sync EXCEPT !.mutex = "held"]
    /\ UNCHANGED <<articles, sb_articles, filter_file, search_file, INDEX, overflow_checks,
                   call, ret>>

\* what the call computes from the index under the guard
UnderGuard(th, index, checks) ==
    IF th.op = "get_all_tags"
    THEN {[kind |-> "ok", tags |-> tags] : tags \in Orders(DOMAIN index.tag_index)}
    ELSE {FilterArticlesOn(index, th.arg, candidate_ids, checks) :
             candidate_ids \in Orders(ApplyFilters(index, th.arg))}

\* the rest of get_all_tags and filter_articles, under the guard (the Option
\* in the slot is always Some). The guard is dropped on return; a panic
\* poisons the lock when the build unwinds and ends the process when it aborts
Locked(t) ==
    /\ Alive
    /\ threads[t].pc = "locked"
    /\ \E r \in UnderGuard(threads[t], INDEX[1], overflow_checks) :
          IF r = Panic
          THEN \/ /\ threads' = [threads EXCEPT ![t] = [Returned(@, r) EXCEPT !.seen = INDEX]]
                  /\ sync' = [sync EXCEPT !.mutex = "poisoned"]
               \/ /\ threads' = [threads EXCEPT ![t] = [@ EXCEPT !.pc = "aborted", !.ret = r,
                                                                 !.seen = INDEX]]
                  /\ UNCHANGED sync
          ELSE /\ threads' = [threads EXCEPT ![t] = [Returned(@, r) EXCEPT !.seen = INDEX]]
               /\ sync' = [sync EXCEPT !.mutex = "free"]
    /\ UNCHANGED <<articles, sb_articles, filter_file, search_file, INDEX, overflow_checks,
                   call, ret>>

ThreadNext ==
    \E t \in Threads :
       \/ \E data \in ThreadInputs : Enter(t, "load_index", data)
       \/ Enter(t, "get_all_tags", <<>>)
       \/ \E params \in ThreadParams : Enter(t, "filter_articles", params)
       \/ Decode(t)
       \/ OnceInit(t)
       \/ Store(t)
       \/ Publish(t)
       \/ Get(t)
       \/ Lock(t)
       \/ Locked(t)

ThreadSpec == Init /\ [][ThreadNext]_vars

----------------------------------------------------------------------------
(* Properties of the filter engine's lifecycle and of the codec *)

\* the index an init call's bytes decode to, as the engine installs it
Installed(data) ==
    ConvertFilterToArticleIndex(FilterIndexFromCompressed(data, FilterMaxVersion).val)

\* C1: The first init whose bytes decode installs their index; once an index
\* is installed no step changes it, whatever a later init is given; and what
\* get_all_tags and filter_articles answer is read from the installed index.
C1_InitOnce ==
    [][ /\ (INDEX = <<>> /\ call'.op = "init" /\ ret'.kind = "ok")
            => (INDEX' = <<Installed(call'.data)>>)
        /\ (INDEX # <<>>) => (INDEX' = INDEX)
        /\ (call'.op = "get_all_tags" /\ ret'.kind = "ok")
            => (INDEX' # <<>> /\ Range(ret'.tags) = DOMAIN INDEX'[1].tag_index)
        /\ (call'.op = "filter_articles" /\ ret'.kind = "ok")
            => (/\ INDEX' # <<>>
                /\ ret'.total = Cardinality(ApplyFilters(INDEX'[1], call'.params))
                /\ Range(ret'.articles) \subseteq Range(INDEX'[1].articles)) ]_vars

\* a later init with other valid bytes has returned and the index is still
\* the first one
C1_LaterInitIgnored ==
    /\ call.op = "init" /\ ret.kind = "ok"
    /\ INDEX # <<>>
    /\ INDEX[1] # Installed(call.data)

\* C2: A query made while no index is installed returns NotInitialized, and a
\* query made on an installed index never does.
C2_NotInitialized ==
    (call.op = "get_all_tags" \/ (call.op = "filter_articles" /\ call.json_ok))
        => IF INDEX = <<>> THEN ret = NotInitialized
           ELSE ret # NotInitialized

\* filter_articles was asked before any init succeeded, with the artifact at
\* hand, and answered NotInitialized
C2_QueryBeforeInit ==
    /\ call.op = "filter_articles" /\ call.json_ok
    /\ filter_file # <<>> /\ INDEX = <<>>
    /\ ret = NotInitialized

\* the ways the bytes of an init call fail to decode: a short buffer, another
\* magic, a major version above the loader's, a payload that inflates to a
\* length other than the declared one
ShortBuffer(d) == Len(d) < 5 + 2 + 4
MagicMismatch(d) == ~ShortBuffer(d) /\ SubSeq(d, 1, 5) # <<78, 69, 67, 77, 80>>
LaterMajor(d, max) == ~ShortBuffer(d) /\ ~MagicMismatch(d) /\ d[6] > max
LengthMismatch(d, max) ==
    /\ ~ShortBuffer(d) /\ ~MagicMismatch(d) /\ ~LaterMajor(d, max)
    /\ LET inflated == GzDecode(SubSeq(d, 12, Len(d)))
       IN inflated.ok /\ Len(inflated.val) # U32FromLeBytes(SubSeq(d, 8, 11))

\* C3: An init whose bytes fail to decode returns an error and leaves the
\* cell as it was.
C3_FailedInitKeepsState ==
    [][ (/\ call'.op = "init"
         /\ \/ ShortBuffer(call'.data) \/ MagicMismatch(call'.data)
            \/ LaterMajor(call'.data, 3) \/ LengthMismatch(call'.data, 3))
        => (ret'.kind = "err" /\ INDEX' = INDEX) ]_vars

\* an init given an artifact whose declared length is off has failed and the
\* engine is still uninitialized
C3_LengthMismatchRefused ==
    /\ call.op = "init" /\ LengthMismatch(call.data, 3)
    /\ ret.kind = "err" /\ INDEX = <<>>

\* C4: No call of a host entry point ends in a panic.
C4_NoPanic == ret.kind # "panic"

\* C5: What the indexer wrote decodes, with the major version it was written
\* with as the maximum, to the index that was built.
C5_RoundTrip ==
    /\ (filter_file # <<>>)
        => (FilterIndexFromCompressed(filter_file, FilterVersion[1])
              = [err |-> "none", val |-> BuildFilterIndex(articles).val])
    /\ (search_file # <<>>)
        => (\E seed \in HashSeeds :
              SearchIndexFromCompressed(search_file, SearchVersion[1])
                = [err |-> "none", val |-> BuildSearchIndex(sb_articles, seed).val])

\* a well-framed byte string: long enough and with the magic
Framed(d) == ~ShortBuffer(d) /\ ~MagicMismatch(d)

\* C6: The filter artifact carries major 3 and the search artifact major 7;
\* the filter loader refuses for its version exactly the frames with a major
\* above 3, the search loader exactly those with a major above 9; so neither
\* loader refuses its own builder's artifact for its version, and an init
\* given the search artifact fails and installs nothing.
C6_VersionGate ==
    [][ /\ (filter_file' # <<>>) => (filter_file'[6] = 3)
        /\ (search_file' # <<>>) => (search_file'[6] = 7)
        /\ (call'.op = "init" /\ Framed(call'.data))
            => (ret' = Err("version") <=> call'.data[6] > 3)
        /\ (call'.op = "search_articles" /\ call'.json_ok /\ Framed(call'.data))
            => (ret' = Err("version") <=> call'.data[6] > 9)
        /\ (call'.op = "init" /\ search_file' # <<>> /\ call'.data = search_file')
            => (ret'.kind = "err" /\ INDEX' = INDEX) ]_vars

\* the filter loader was handed the search artifact and refused its version
C6_SearchArtifactRefused ==
    /\ call.op = "init"
    /\ search_file # <<>> /\ call.data = search_file
    /\ ret = Err("version") /\ INDEX = <<>>

----------------------------------------------------------------------------
(* Properties of filter_articles *)

\* the article carries at least one of the tags
HasAnyTag(a, tags) == \E i \in DOMAIN tags : tags[i] \in Range(a.tags)

\* the article's date lies in 2024, both ends included
In2024(a) ==
    DateLeq(Date(2024, 1, 1, 0), a.date) /\ DateLeq(a.date, Date(2024, 12, 31, 86399))

\* C7: Without a date filter, or with the range of the year 2024, the total
\* counts exactly the articles of the index that carry at least one of the
\* given tags (every article when the tags are absent or empty) and lie in the
\* range; a page large enough returns just these.
C7_TagsAreOr ==
    (/\ call.op = "filter_articles" /\ call.json_ok
     /\ ret.kind = "ok"
     /\ call.params.date \in {None, Some(Year2024)})
    => LET as == INDEX[1].articles
           tags == call.params.tags
           expected == {i \in DOMAIN as :
                          /\ tags = None \/ tags[1] = <<>> \/ HasAnyTag(as[i], tags[1])
                          /\ call.params.date = None \/ In2024(as[i])}
       IN /\ ret.total = Cardinality(expected)
          /\ Range(ret.articles) \subseteq {as[i] : i \in expected}
          /\ (ret.limit >= ret.total) => (Range(ret.articles) = {as[i] : i \in expected})

\* two tags were given, no article carries both, and the two articles that
\* carry one of them are counted out of three
C7_TwoTagsUnion ==
    /\ call.op = "filter_articles" /\ call.json_ok
    /\ call.params.tags = Some(<<TagR, TagW>>) /\ call.params.date = None
    /\ ret.kind = "ok" /\ ret.total = 2
    /\ Len(INDEX[1].articles) = 3
    /\ \A i \in DOMAIN INDEX[1].articles :
          ~({TagR, TagW} \subseteq Range(INDEX[1].articles[i].tags))

\* the bound a side of the date parameter gives: none when the side is empty
\* or is no date
SideBound(side, suffix) ==
    LET parsed == ParseRfc3339(side \o suffix)
    IN IF side # <<>> /\ parsed.ok THEN Some(parsed.val) ELSE None

\* C8: With a date parameter "<start>,<end>" and no tags, the total counts
\* exactly the articles on or after the start bound and on or before the end
\* bound, a side that is empty or malformed giving no bound.
C8_MalformedSideIsAbsent ==
    (/\ call.op = "filter_articles" /\ call.json_ok
     /\ ret.kind = "ok"
     /\ call.params.tags = None
     /\ call.params.date # None
     /\ Len(SplitComma(UnwrapOr(call.params.date, <<>>))) = 2)
    => LET sides == SplitComma(call.params.date[1])
           start == SideBound(sides[1], StartOfDaySuffix)
           end == SideBound(sides[2], EndOfDaySuffix)
           as == INDEX[1].articles
       IN ret.total = Cardinality({i \in DOMAIN as :
                                     /\ start = None \/ DateLeq(start[1], as[i].date)
                                     /\ end = None \/ DateLeq(as[i].date, end[1])})

\* the quotient rounded up
CeilDiv(a, b) == (a + b - 1) \div b

\* C9: In a result the limit is the one asked for (12 when none is, 1 when 0
\* is), total_pages is total / limit rounded up, the page is the one asked
\* for (1 when none is) brought into [1, max(1, total_pages)], the articles
\* are at most limit, exactly min(limit, total - (page-1)*limit) of them when
\* (page-1)*limit < total, and total is the number of matching articles.
C9_Pagination ==
    (call.op = "filter_articles" /\ call.json_ok /\ ret.kind = "ok")
    => LET asked_page == UnwrapOr(call.params.page, 1)
           asked_limit == UnwrapOr(call.params.limit, 12)
           first == (ret.page - 1) * ret.limit
       IN /\ ret.limit = Max(asked_limit, 1)
          /\ ret.total = Cardinality(ApplyFilters(INDEX[1], call.params))
          /\ ret.total_pages = CeilDiv(ret.total, ret.limit)
          /\ ret.page = Min(Max(asked_page, 1), Max(1, ret.total_pages))
          /\ Len(ret.articles) <= ret.limit
          /\ (first < ret.total) => (Len(ret.articles) = Min(ret.limit, ret.total - first))

\* the key the sort compares
SameKey(sort, a, b) ==
    IF sort \in {Some("title_asc"), Some("title_desc")} THEN a.title = b.title
    ELSE a.date = b.date

\* the place of an article in the index
IndexPosition(as, a) == CHOOSE i \in DOMAIN as : as[i] = a

\* C10: Two returned articles with the same sort key stand in the result in
\* the order they have in the index.
C10_StableIndexOrder ==
    (call.op = "filter_articles" /\ call.json_ok /\ ret.kind = "ok")
    => \A i, j \in DOMAIN ret.articles :
          (i < j /\ SameKey(call.params.sort, ret.articles[i], ret.articles[j]))
          => (IndexPosition(INDEX[1].articles, ret.articles[i])
                < IndexPosition(INDEX[1].articles, ret.articles[j]))

----------------------------------------------------------------------------
(* Properties of the filter builder *)

\* the index FilterBuilder holds the articles of, once it has been written
BuiltFilterIndex == BuildFilterIndex(articles).val

\* the buckets of a posting map that hold an ordinal
BucketsOf(m, i) == {k \in DOMAIN m : i \in m[k]}

\* every ordinal of a posting map is below n
PostingsBelow(m, n) == \A k \in DOMAIN m : \A i \in m[k] : i \in Nat /\ i < n

\* C11: In every filter index the builder makes from the articles added to
\* it, the postings of a tag are exactly the ordinals of the articles that
\* carry the tag, every ordinal in a tag, year or month posting set is below
\* the number of articles, and every article's ordinal is in exactly one
\* year bucket and exactly one month bucket.
C11_PostingsMatchArticles ==
    (filter_file # <<>>)
    => /\ \A t \in DOMAIN BuiltFilterIndex.tag_index :
             BuiltFilterIndex.tag_index[t]
               = {i \in 0..(Len(articles) - 1) : \E k \in DOMAIN articles[i + 1].tags :
                                                    articles[i + 1].tags[k] = t}
       /\ \A i \in DOMAIN articles : \A k \in DOMAIN articles[i].tags :
             articles[i].tags[k] \in DOMAIN BuiltFilterIndex.tag_index
       /\ PostingsBelow(BuiltFilterIndex.tag_index, Len(articles))
       /\ PostingsBelow(BuiltFilterIndex.year_index, Len(articles))
       /\ PostingsBelow(BuiltFilterIndex.month_index, Len(articles))
       /\ \A i \in 0..(Len(articles) - 1) :
             /\ Cardinality(BucketsOf(BuiltFilterIndex.year_index, i)) = 1
             /\ Cardinality(BucketsOf(BuiltFilterIndex.month_index, i)) = 1

\* an index written from three articles, with a tag two of them carry and
\* articles of two different years
C11_SharedTagTwoYears ==
    /\ filter_file # <<>>
    /\ Len(articles) = 3
    /\ \E t \in DOMAIN BuiltFilterIndex.tag_index :
          Cardinality(BuiltFilterIndex.tag_index[t]) = 2
    /\ Cardinality(DOMAIN BuiltFilterIndex.year_index) = 2

----------------------------------------------------------------------------
(* Properties of the search engine: matching *)

\* a search that was answered from a written search artifact
SearchAnswered ==
    /\ call.op = "search_articles" /\ call.json_ok /\ call.data # <<>>
    /\ call.req.search_type = "" /\ ret.kind = "ok"

\* the index the search artifact carries
SearchedIndex == BuildSearchIndex(sb_articles, 0).val

\* the query the steps compare with
SearchedQuery == ToLowercase(Trim(ToLowercase(call.req.query)))

\* the condition of step k, one of the first six, for the article at ordinal i
EarlyTierHolds(k, idx, i, q) ==
    CASE k = 1 -> StartsWith(ToLowercase(idx.articles[i + 1].title), q)
                  /\ ToLowercase(idx.articles[i + 1].title) # q
      [] k = 2 -> Contains(ToLowercase(idx.articles[i + 1].title), q)
      [] k = 3 -> ToLowercase(idx.articles[i + 1].title) = q
      [] k = 4 -> i \in Lookup(idx.title_term_index, q)
      [] k = 5 -> \E h \in Lookup(idx.heading_term_index, q) :
                     ExtractArticleIdFromHeading(h) = Some(i)
      [] OTHER -> i \in Lookup(idx.content_term_index, q)

\* the condition of step k; the seventh needs that the six before it hold
\* for no article
TierHolds(k, idx, i, q) ==
    IF k <= 6 THEN EarlyTierHolds(k, idx, i, q)
    ELSE /\ Contains(ToLowercase(idx.articles[i + 1].content), q)
         /\ \A j \in 0..(Len(idx.articles) - 1), t \in 1..6 : ~EarlyTierHolds(t, idx, j, q)

TierScore(k) == <<115, 99, 90, 85, 80, 75, 50>>[k]

\* the lists find_matched_articles can return, with the iteration orders
\* that give them: <<matched, o4, o5, o6>>
MatchedLists(idx, q) ==
    {<<FindMatchedArticles(idx, q, o4, o5, o6), o4, o5, o6>> :
        o4 \in Orders(Lookup(idx.title_term_index, q)),
        o5 \in Orders(Lookup(idx.heading_term_index, q)),
        o6 \in Orders(Lookup(idx.content_term_index, q))}

\* the items of the result are the matches of the list, one for one
ItemsAre(items, matched, idx) ==
    /\ Len(items) = Len(matched)
    /\ \A k \in DOMAIN items :
          /\ items[k].id = idx.articles[matched[k][1] + 1].id
          /\ items[k].score = matched[k][2]

\* every match carries the score of the first step that holds for it
LowestTierScores(matched, idx, q) ==
    \A k \in DOMAIN matched :
       \E t \in 1..7 :
          /\ TierHolds(t, idx, matched[k][1], q)
          /\ \A u \in 1..(t - 1) : ~TierHolds(u, idx, matched[k][1], q)
          /\ matched[k][2] = TierScore(t)

\* C12: Every article in a search result carries the score of the
\* lowest-numbered of the seven tiers (scores 115, 99, 90, 85, 80, 75, 50)
\* whose condition it satisfies for the lowercased query; it never carries
\* the score of a later tier.
C12_TierMonotonicity ==
    SearchAnswered
    => \E idx \in {SearchedIndex}, q \in {SearchedQuery} :
          /\ \A m \in MatchedLists(idx, q) : LowestTierScores(m[1], idx, q)
          /\ \E m \in MatchedLists(idx, q) : ItemsAre(ret.items, m[1], idx)

\* a result with a title that starts with the query (115), a title that
\* contains it (99) and a heading that carries it (80)
C12_ThreeTiers ==
    /\ SearchAnswered
    /\ Len(ret.items) = 3
    /\ {ret.items[k].score : k \in DOMAIN ret.items} = {115, 99, 80}

\* C13: An article whose lowercased title equals the lowercased query is
\* returned with the tier-3 score 90, not with 115 and not with 99.
C13_ExactTitleScores90 ==
    SearchAnswered
    => \A k \in DOMAIN ret.items :
          (\E i \in DOMAIN sb_articles :
              /\ sb_articles[i].id = ret.items[k].id
              /\ ToLowercase(sb_articles[i].title) = SearchedQuery)
          => ret.items[k].score = 90

\* the ordinals of the matches with a score, in the order of the list
OrdinalsWith(matched, score) ==
    LET those == SelectSeq(matched, LAMBDA e : e[2] = score)
    IN [k \in DOMAIN those |-> those[k][1]]

\* ids stand in the order in which `order` brings them first
InOrderOf(ids, order) ==
    \A a, b \in DOMAIN ids :
       a < b => \E x, y \in DOMAIN order :
                   /\ x < y /\ order[x] = ids[a] /\ order[y] = ids[b]
                   /\ \A z \in 1..(x - 1) : order[z] # ids[a]
                   /\ \A z \in 1..(y - 1) : order[z] # ids[b]

Ascending(ids) == \A a, b \in DOMAIN ids : a < b => ids[a] < ids[b]

\* C14: The list of matched articles holds every article ordinal at most
\* once, every ordinal in it is below the number of articles, and it is in
\* descending order of score, the articles of one tier in the order in which
\* the tier produced them (index order for the passes over the articles, the
\* iteration order of the posting set for the passes over the postings).
C14_MatchedListWellFormed ==
    SearchAnswered
    => \E idx \in {SearchedIndex}, q \in {SearchedQuery} :
          \A m \in MatchedLists(idx, q) :
             /\ \A a, b \in DOMAIN m[1] : a # b => m[1][a][1] # m[1][b][1]
             /\ \A a \in DOMAIN m[1] : m[1][a][1] \in 0..(Len(idx.articles) - 1)
             /\ \A a, b \in DOMAIN m[1] : a < b => m[1][a][2] >= m[1][b][2]
             /\ \A t \in {1, 2, 3, 7} : Ascending(OrdinalsWith(m[1], TierScore(t)))
             /\ InOrderOf(OrdinalsWith(m[1], TierScore(4)), m[2])
             /\ InOrderOf(OrdinalsWith(m[1], TierScore(5)), HeadingArticleIds(m[3]))
             /\ InOrderOf(OrdinalsWith(m[1], TierScore(6)), m[4])

\* a search for a word that the contents of three articles carry: the three
\* come in the order of the posting set, which is not the index order
C14_ThreeOfOneTier ==
    /\ SearchAnswered
    /\ Len(ret.items) = 3
    /\ \A k \in DOMAIN ret.items : ret.items[k].score = 75
    /\ ret.items[1].id = sb_articles[3].id

----------------------------------------------------------------------------
(* Properties of the search engine: snippets and suggestions *)

\* pat stands in s from place i on
OccursAt(s, i, pat) == i + Len(pat) - 1 <= Len(s) /\ SubSeq(s, i, i + Len(pat) - 1) = pat

\* the snippet wraps an occurrence of the query, in whatever case, in marks
HasMarkedQuery(snippet, q) ==
    \E i \in 1..Len(snippet), j \in 1..Len(snippet) :
       /\ i + Len(MarkOpen) + Len(q) = j
       /\ OccursAt(snippet, i, MarkOpen)
       /\ ToLowercase(SubSeq(snippet, i + Len(MarkOpen), j - 1)) = q
       /\ OccursAt(snippet, j, MarkClose)

\* the article of the index an item of the result was made from
ArticleOfItem(item) == CHOOSE a \in Range(sb_articles) : a.id = item.id

\* C15: When the query is found in the content of an article without
\* headings (a match of tier 6 or 7), the item of that article has a heading
\* tree whose root snippet holds the query wrapped in <mark>...</mark>,
\* wherever in the content the occurrence lies, the first bytes included;
\* "..." stands in front exactly when the window starts after the start of
\* the slice and at the end exactly when it ends before the end of the slice
\* (so neither for a content short enough to be shown whole).
C15_ContentMatchHasSnippet ==
    SearchAnswered
    => \A k \in DOMAIN ret.items :
          (/\ ret.items[k].score \in {75, 50}
           /\ ArticleOfItem(ret.items[k]).headings = <<>>
           /\ ByteLen(ArticleOfItem(ret.items[k]).content) <= SnippetLimit)
          => /\ ret.items[k].heading_tree # None
             /\ ret.items[k].heading_tree[1].content # None
             /\ HasMarkedQuery(ret.items[k].heading_tree[1].content[1], SearchedQuery)
             /\ ~StartsWith(ret.items[k].heading_tree[1].content[1], Ellipsis)
             /\ ~StartsWith(Reverse(ret.items[k].heading_tree[1].content[1]), Ellipsis)

\* an autocomplete request that was answered from a written search artifact
AutocompleteAnswered ==
    /\ call.op = "search_articles" /\ call.json_ok /\ call.data # <<>>
    /\ call.req.search_type = "autocomplete" /\ ret.kind = "ok"

\* C16: An autocomplete request with an empty query returns the ten most
\* frequent entries of common_terms (all of them when there are fewer), in
\* descending order of frequency, each as a Completion suggestion with an
\* empty matched_text.
C16_EmptyQuerySuggestsPopular ==
    (AutocompleteAnswered /\ call.req.query = <<>>)
    => \E terms \in {SearchedIndex.common_terms} :
          /\ Len(ret.suggestions) = Min(10, Cardinality(DOMAIN terms))
          /\ \A k \in DOMAIN ret.suggestions :
                /\ ret.suggestions[k].text \in DOMAIN terms
                /\ ret.suggestions[k].suggestion_type = "completion"
                /\ ret.suggestions[k].matched_text = <<>>
                /\ \A t \in DOMAIN terms :
                      (\A j \in DOMAIN ret.suggestions : ret.suggestions[j].text # t)
                      => terms[t] <= terms[ret.suggestions[k].text]
          /\ \A j, k \in DOMAIN ret.suggestions :
                j < k => /\ ret.suggestions[j].text # ret.suggestions[k].text
                         /\ terms[ret.suggestions[j].text] >= terms[ret.suggestions[k].text]

\* perform_autocomplete has returned
AutocompleteReturned == call.op = "perform_autocomplete" /\ ret.kind = "ok"

\* the query the candidates are compared with
SuggestQuery == ToLowercase(Trim(ToLowercase(call.query)))

\* C17: For a non-empty query the suggestions returned are at most 10, stand
\* in descending order of score and, for equal scores, of frequency, hold no
\* text whose lowercase equals the query, and an autocomplete request returns
\* them with an empty list of items; the query "was" over the common terms
\* "wasm" (42) and "washington" (5) gives "wasm" before "washington", both
\* as Completion.
C17_SuggestionsRanked ==
    (AutocompleteReturned /\ SuggestQuery # <<>>)
    => /\ Len(ret.suggestions) <= 10
       /\ \A j, k \in DOMAIN ret.suggestions :
             j < k => \/ ret.suggestions[j].score > ret.suggestions[k].score
                      \/ /\ ret.suggestions[j].score = ret.suggestions[k].score
                         /\ ret.suggestions[j].frequency >= ret.suggestions[k].frequency
       /\ \A k \in DOMAIN ret.suggestions :
             ToLowercase(ret.suggestions[k].text) # SuggestQuery
       /\ ret.items = <<>>
       /\ (call.index = WasIndex /\ SuggestQuery = <<119, 97, 115>>)
          => /\ [k \in DOMAIN ret.suggestions |-> ret.suggestions[k].text]
                  = <<StrWasm, StrWashington>>
             /\ \A k \in DOMAIN ret.suggestions :
                   ret.suggestions[k].suggestion_type = "completion"

\* ten suggestions returned out of more candidates, a title in front of the
\* terms, and terms of one score in the order of their frequencies
C17_TenOfMany ==
    /\ AutocompleteReturned /\ SuggestQuery # <<>>
    /\ Cardinality(DOMAIN call.index.common_terms) > 10
    /\ Len(ret.suggestions) = 10
    /\ ret.suggestions[1].score > ret.suggestions[2].score
    /\ ret.suggestions[2].score = ret.suggestions[3].score
    /\ ret.suggestions[2].frequency > ret.suggestions[3].frequency

\* C18: A Completion suggestion whose lowercased text starts with the query
\* is split so that matched_text followed by suggestion_text is the text in
\* its original case and matched_text lowercased is the query; every other
\* suggestion has matched_text = query and suggestion_text = text. The split
\* never falls inside a multi-byte character, also when lowercasing changes
\* the length of the prefix in bytes (so the request does not panic).
C18_SplitAtQuery ==
    (call.op = "perform_autocomplete" /\ SuggestQuery # <<>>)
    => /\ ret.kind = "ok"
       /\ \A k \in DOMAIN ret.suggestions :
             IF /\ ret.suggestions[k].suggestion_type = "completion"
                /\ StartsWith(ToLowercase(ret.suggestions[k].text), SuggestQuery)
             THEN /\ ret.suggestions[k].matched_text \o ret.suggestions[k].suggestion_text
                       = ret.suggestions[k].text
                  /\ ToLowercase(ret.suggestions[k].matched_text) = SuggestQuery
             ELSE /\ ret.suggestions[k].matched_text = SuggestQuery
                  /\ ret.suggestions[k].suggestion_text = ret.suggestions[k].text

\* a highlighted text without its marks
RECURSIVE StripMarks(_)
StripMarks(s) ==
    IF s = <<>> THEN <<>>
    ELSE IF StartsWith(s, MarkOpen) THEN StripMarks(SubSeq(s, Len(MarkOpen) + 1, Len(s)))
    ELSE IF StartsWith(s, MarkClose) THEN StripMarks(SubSeq(s, Len(MarkClose) + 1, Len(s)))
    ELSE <<Head(s)>> \o StripMarks(Tail(s))

\* the texts between a <mark> and the </mark> that follows it
MarkedSpans(s) ==
    {SubSeq(s, i + Len(MarkOpen), j - 1) :
        <<i, j>> \in {p \in (1..Len(s)) \X (1..Len(s)) :
            /\ p[1] + Len(MarkOpen) <= p[2]
            /\ OccursAt(s, p[1], MarkOpen)
            /\ OccursAt(s, p[2], MarkClose)
            /\ \A z \in (p[1] + 1)..(p[2] - 1) : ~OccursAt(s, z, MarkClose)}}

\* a snippet without the "..." in front and at the end
StripEllipses(s) ==
    LET front == IF StartsWith(s, Ellipsis) THEN SubSeq(s, 4, Len(s)) ELSE s
    IN IF StartsWith(Reverse(front), Ellipsis) THEN SubSeq(front, 1, Len(front) - 3)
       ELSE front

\* C19: Highlight preservation: for every title, every paragraph slice and
\* every query, the highlighted output without its <mark> and </mark> (and
\* without a "..." in front or at the end) is a contiguous piece of the
\* original text in its original case (the whole title for a title), with no
\* character dropped, doubled or moved, and every marked span lowercases to
\* the lowercased query.
C19_HighlightPreserves ==
    /\ (call.op = "highlight_title" /\ ret.kind = "ok")
       => /\ StripMarks(ret.val) = call.title
          /\ \A span \in MarkedSpans(ret.val) : ToLowercase(span) = ToLowercase(call.query)
    /\ (call.op = "find_matches_in_paragraph" /\ ret.kind = "ok" /\ ret.some)
       => /\ Contains(call.content, StripEllipses(StripMarks(ret.val)))
          /\ \A span \in MarkedSpans(ret.val) : ToLowercase(span) = call.terms[1]

\* C20: Boundary safety: whatever the article, the heading entry and the
\* query, every byte offset at which the engine slices a string (the start
\* and end of the paragraph slice, the offset at which the occurrence scan
\* goes on in the lowercased text, the offsets carried from the lowercased
\* text to the original, the bounds of the snippet window) is a character
\* boundary of the string that is sliced and within its length, so that no
\* slice panics.
C20_SlicesAtBoundaries ==
    (call.op \in {"highlight_title", "find_matches_in_paragraph"}) => ret.kind # "panic"

----------------------------------------------------------------------------
(* Properties of the search builder *)

\* an index the builder made
IndexWasBuilt == call.op = "build_search_index" /\ ret.kind = "ok"

\* every key of a term index has at least two characters
KeysOfTwoChars(m) == \A k \in DOMAIN m : Len(k) >= 2

\* C21: In every index the search builder makes, every key of the title,
\* heading and content term indexes is at least 2 characters long (characters,
\* not bytes), so that no single Han character is a key, and every article
\* ordinal in a posting set is below the number of articles.
C21_KeysOfTwoCharacters ==
    IndexWasBuilt
    => /\ KeysOfTwoChars(ret.val.title_term_index)
       /\ KeysOfTwoChars(ret.val.heading_term_index)
       /\ KeysOfTwoChars(ret.val.content_term_index)
       /\ PostingsBelow(ret.val.title_term_index, Len(call.articles))
       /\ PostingsBelow(ret.val.content_term_index, Len(call.articles))

\* a heading index made for one page
HeadingIndexMade == call.op = "build_heading_hierarchy" /\ ret.kind = "ok"

\* the parent encloses the start of the child and is of a lower level
Encloses(parent, child) ==
    /\ parent.level < child.level
    /\ parent.start_position <= child.start_position
    /\ child.start_position < parent.end_position

\* C22: In the heading index, for every parent/child pair the parent's level
\* is strictly lower than the child's and parent.start_position <=
\* child.start_position < parent.end_position; and for every entry
\* start_position <= end_position <= len(content) of its article.
C22_HeadingRangesNest ==
    HeadingIndexMade
    => \A id \in DOMAIN ret.val :
          /\ ret.val[id].start_position <= ret.val[id].end_position
          /\ ret.val[id].end_position <= ByteLen(call.article.content)
          /\ ret.val[id].parent_id # None
                => Encloses(ret.val[ret.val[id].parent_id[1]], ret.val[id])

----------------------------------------------------------------------------
(* Properties of the search engine: the heading tree *)

\* a tree was returned for a page with headings
TreeReturned ==
    /\ call.op = "build_heading_tree_with_matches" /\ ret.kind = "ok" /\ ret.val # None
    /\ call.article.headings # <<>>

\* the heading entries of the page
EntriesOf(article) == ExtractHeadings(article)

\* the nodes are in the order of (level, text)
ByLevelAndText(nodes) ==
    \A i \in 1..(Len(nodes) - 1) :
       \/ nodes[i].level < nodes[i + 1].level
       \/ /\ nodes[i].level = nodes[i + 1].level
          /\ ~SeqLess(nodes[i + 1].text, nodes[i].text)

\* below a node every list of children is in the order of (level, text)
RECURSIVE SortedBelow(_)
SortedBelow(node) ==
    /\ ByLevelAndText(node.children)
    /\ \A i \in DOMAIN node.children : SortedBelow(node.children[i])

\* the snippet of a node, without its marks, is a piece of the content
\* between the start and the end of the node's own entry
FromOwnSlice(node, hi, content) ==
    node.content # None
    => \E piece \in {StripMarks(StripEllipses(node.content[1]))},
          slice \in {Chars(SubSeq(Bytes(content), hi[node.id].start_position + 1,
                                   Min(hi[node.id].end_position, ByteLen(content))))} :
          Contains(slice, piece)

RECURSIVE SnippetsBelow(_, _, _)
SnippetsBelow(node, hi, content) ==
    \A i \in DOMAIN node.children :
       /\ FromOwnSlice(node.children[i], hi, content)
       /\ SnippetsBelow(node.children[i], hi, content)

\* C23: In the heading tree returned for an article with headings, the
\* virtual root's children are the headings without parent in ascending
\* start_position (document) order, and below them each node's children are
\* sorted by (level ascending, text ascending); each node's snippet comes only
\* from its own paragraph slice.
C23_TreeInDocumentOrder ==
    TreeReturned
    => \E root \in {ret.val[1]}, hi \in {EntriesOf(call.article)} :
          /\ {root.children[i].id : i \in DOMAIN root.children}
               = {id \in DOMAIN hi : hi[id].parent_id = None}
          /\ \A i \in 1..(Len(root.children) - 1) :
                hi[root.children[i].id].start_position
                  <= hi[root.children[i + 1].id].start_position
          /\ \A i \in DOMAIN root.children : SortedBelow(root.children[i])
          /\ SnippetsBelow(root, hi, call.article.content)

\* a search over a built index was answered
BuiltSearched == call.op = "perform_search" /\ ret.kind = "ok"

\* the query is a keyword of a heading of the article
InHeadingOf(article, q) ==
    \E h \in DOMAIN article.headings : q \in ExtractKeywords(article.headings[h].text)

\* the id of a heading names the ordinal of the article that has the heading
NamesItsArticle(id, entry, as) ==
    \E i \in Ordinals(as) :
       /\ ExtractArticleIdFromHeading(id) = Some(i)
       /\ \E h \in DOMAIN as[i + 1].headings : as[i + 1].headings[h].text = entry.text

\* C24: Every heading id the search builder writes has the form
\* "<article-ordinal>:<k>", so that the part before ':' gives the engine the
\* ordinal of the article that owns the heading: an article with the query
\* term in a heading text, which no earlier tier matches, is returned at tier
\* 5 with the score 80, and its heading tree is built from its own entries.
C24_HeadingIdsNameOrdinals ==
    BuiltSearched
    => \E idx \in {BuildSearchIndex(call.articles, 0).val},
          q \in {ToLowercase(call.req.query)} :
          /\ \A id \in DOMAIN idx.heading_index :
                NamesItsArticle(id, idx.heading_index[id], call.articles)
          /\ \A i \in Ordinals(call.articles) :
                (InHeadingOf(call.articles[i + 1], q)
                 /\ \A t \in 1..4 : ~EarlyTierHolds(t, idx, i, q))
                => \E k \in DOMAIN ret.items :
                      /\ ret.items[k].id = call.articles[i + 1].id
                      /\ ret.items[k].score = Score5
                      /\ ret.items[k].heading_tree # None
                      /\ Len(ret.items[k].heading_tree[1].children) > 0

----------------------------------------------------------------------------
(* Properties of the indexer's heading positions *)

\* the indexer has placed the headings of a page
HeadingsPositioned == call.op = "extract_headings" /\ ret.kind = "ok"

\* C25: After the extractor has computed the heading positions, the
\* end_position of every heading, when present, is the final position of the
\* next heading in document order, or len(content) for the last heading; it
\* is never a value read before the next heading's position was computed.
C25_EndIsNextPosition ==
    HeadingsPositioned
    => \A i \in DOMAIN ret.val :
          ret.val[i].end_position # None
          => ret.val[i].end_position[1]
               = IF i < Len(ret.val) THEN ret.val[i + 1].position
                 ELSE ByteLen(call.content)

----------------------------------------------------------------------------
(* Properties of the keyword extractor *)

\* the keywords of a text were extracted
KeywordsExtracted == call.op = "extract_keywords" /\ ret.kind = "ok"

\* the characters of a Latin run, and those of a Han run: whatever is
\* neither of a Latin run nor white space nor ASCII punctuation
IsLatinChar(c) ==
    IsAsciiDigit(c) \/ (c >= 65 /\ c <= 90) \/ (c >= 97 /\ c <= 122) \/ c = 95 \/ c = 45
IsHanRunChar(c) == ~IsLatinChar(c) /\ ~IsWhitespace(c) /\ ~IsAsciiPunctuation(c)

AllLatin(k) == \A i \in DOMAIN k : IsLatinChar(k[i])
AllHanRun(k) == \A i \in DOMAIN k : IsHanRunChar(k[i])

\* the maximal stretches of s whose characters are all of one class
MaximalRuns(s, InClass(_)) ==
    {SubSeq(s, i, j) : <<i, j>> \in
        {p \in (1..Len(s)) \X (1..Len(s)) :
            /\ p[1] <= p[2]
            /\ \A z \in p[1]..p[2] : InClass(s[z])
            /\ (p[1] = 1 \/ ~InClass(s[p[1] - 1]))
            /\ (p[2] = Len(s) \/ ~InClass(s[p[2] + 1]))}}

\* the stretches of n characters of a run
Grams(run, n) == {SubSeq(run, i, i + n - 1) : i \in 1..(Len(run) - n + 1)}

\* C26: Whitespace or ASCII punctuation flushes both buffers: every Latin
\* token emitted is a maximal contiguous run of ASCII alphanumeric, '_' or '-'
\* characters of the lowercased input, of length >= 2; a run of length 1 is
\* dropped at the boundary and never joined with the characters of a later
\* run ("a b" gives no token "ab").
C26_LatinTokensAreRuns ==
    KeywordsExtracted
    => \A k \in ret.val :
          AllLatin(k)
          => Len(k) >= 2 /\ k \in MaximalRuns(CleanText(call.text), IsLatinChar)

\* C27: Only ASCII alphanumerics, '_' and '-' extend the Latin run; a Han
\* character goes to the Han run, and of a maximal run of Han characters
\* exactly the contiguous stretches of 2 and of 3 characters are emitted (none
\* of 1 character, none longer than 3); tokens of ASCII digits only are
\* dropped, and no token comes twice.
C27_HanRunsGiveNGrams ==
    KeywordsExtracted
    => /\ \A k \in ret.val :
             /\ AllLatin(k) \/ (AllHanRun(k) /\ Len(k) \in 2..3)
             /\ ~(\A i \in DOMAIN k : IsAsciiDigit(k[i]))
       /\ \A run \in MaximalRuns(CleanText(call.text), IsHanRunChar) :
             Grams(run, 2) \cup Grams(run, 3) \subseteq ret.val

----------------------------------------------------------------------------
(* Properties of the heading hierarchy *)

\* the k-th entry made for the page, k from 0 on
EntryAt(k) == ret.val[HeadingId(call.article, k)]

\* the entries made before the k-th that are of a lower level
LowerBefore(k) == {j \in 0..(k - 1) : EntryAt(j).level < EntryAt(k).level}

\* the parent is the nearest earlier entry of a lower level, if there is one
NearestLowerIsParent(k) ==
    EntryAt(k).parent_id
      = IF LowerBefore(k) = {} THEN None
        ELSE Some(HeadingId(call.article,
                            CHOOSE j \in LowerBefore(k) : \A i \in LowerBefore(k) : i <= j))

\* the children of the k-th entry are the entries that name it as parent,
\* each once
ChildrenNameParent(k, n) ==
    /\ Range(EntryAt(k).children_ids)
         = {HeadingId(call.article, c) : c \in {c \in 0..(n - 1) :
               EntryAt(c).parent_id = Some(HeadingId(call.article, k))}}
    /\ Cardinality(Range(EntryAt(k).children_ids)) = Len(EntryAt(k).children_ids)

\* the hierarchy but for the order of the children
HierarchyHolds(n) ==
    /\ DOMAIN ret.val = {HeadingId(call.article, k) : k \in 0..(n - 1)}
    /\ \A k \in 0..(n - 2) : EntryAt(k).start_position <= EntryAt(k + 1).start_position
    /\ \A k \in 0..(n - 1) : NearestLowerIsParent(k) /\ ChildrenNameParent(k, n)

\* C28: After the headings of an article were processed in position order
\* with the level stack, an entry has a parent_id iff some earlier entry has a
\* strictly lower level, and its parent is then the nearest earlier entry of
\* strictly lower level; the children_ids of a parent are exactly the entries
\* that name it as parent, and their start positions never decrease along the
\* list (entries of equal start position stand in the order they were
\* processed in).
C28_NearestLowerLevelParent ==
    HeadingIndexMade
    => /\ HierarchyHolds(Len(call.article.headings))
       /\ \A id \in DOMAIN ret.val :
             \A i \in 1..(Len(ret.val[id].children_ids) - 1) :
                \/ ret.val[ret.val[id].children_ids[i]].start_position
                     < ret.val[ret.val[id].children_ids[i + 1]].start_position
                \/ /\ ret.val[ret.val[id].children_ids[i]].start_position
                        = ret.val[ret.val[id].children_ids[i + 1]].start_position
                   /\ SeqLess(ret.val[id].children_ids[i], ret.val[id].children_ids[i + 1])

\* C28 as it was stated: the start positions of the children_ids of every
\* parent increase strictly
C28_ChildrenStrictlyIncrease ==
    HeadingIndexMade
    => /\ HierarchyHolds(Len(call.article.headings))
       /\ \A id \in DOMAIN ret.val :
             \A i \in 1..(Len(ret.val[id].children_ids) - 1) :
                ret.val[ret.val[id].children_ids[i]].start_position
                  < ret.val[ret.val[id].children_ids[i + 1]].start_position

\* a hierarchy three levels deep in which a later heading returns to the
\* second level: its parent is the first heading, not the one before it
C28_ReturnToSecondLevel ==
    /\ HeadingIndexMade
    /\ Len(call.article.headings) = 4
    /\ EntryAt(2).parent_id = Some(HeadingId(call.article, 1))
    /\ EntryAt(3).parent_id = Some(HeadingId(call.article, 0))
    /\ Len(EntryAt(0).children_ids) = 2

----------------------------------------------------------------------------
(* Properties of the filter engine under concurrent callers *)

\* the indices the threads' valid bytes decode to
WholeIndexes == {Installed(data) : data \in ThreadInputs \ {<<>>}}

\* thread t has returned from get_all_tags or filter_articles
Answered(th) == th.pc = "idle" /\ th.op \in {"get_all_tags", "filter_articles"}

\* the call read, under the guard, the index the complete cell holds, that
\* index is one of the decoded ones as a whole, and the answer was computed
\* from it
SawWholeIndex(th, state, slot, checks) ==
    /\ state.once = "complete"
    /\ th.seen = slot
    /\ slot # <<>> /\ slot[1] \in WholeIndexes
    /\ th.ret \in UnderGuard(th, slot[1], checks)

\* a complete cell stays complete and keeps its index, and one thread at most
\* is installing
InstalledOnce ==
    /\ Cardinality({t \in Threads : threads'[t].pc \in {"store", "publish"}}) <= 1
    /\ sync.once = "complete" => (sync'.once = "complete" /\ INDEX' = INDEX)

\* C29: Under concurrent callers, for every interleaving of init calls with
\* valid but different bytes and of filter calls, exactly one index is ever
\* installed, and every get_all_tags or filter_articles call either fails
\* with NotInitialized, or observes that one index in full, or, once a call
\* has panicked while it held the lock, is refused with the lock error; no
\* call observes a partially installed index or two different indices.
C29_OneIndexPublished ==
    [][ /\ InstalledOnce
        /\ \A t \in Threads :
              Answered(threads'[t])
                 => \/ threads'[t].ret = NotInitialized
                    \/ SawWholeIndex(threads'[t], sync', INDEX', overflow_checks)
                    \/ /\ threads'[t].ret = Err("LockFailed")
                       /\ sync'.mutex = "poisoned"
        /\ (sync.mutex # "poisoned" /\ sync'.mutex = "poisoned")
              => \E u \in Threads : threads[u].pc = "locked" /\ threads'[u].ret = Panic ]_vars

\* C29 as stated: every call fails with NotInitialized or observes the one
\* index in full
C29_NotInitializedOrWhole ==
    [][ /\ InstalledOnce
        /\ \A t \in Threads :
              Answered(threads'[t])
                 => \/ threads'[t].ret = NotInitialized
                    \/ SawWholeIndex(threads'[t], sync', INDEX', overflow_checks) ]_vars

\* two threads loaded different valid bytes and both returned Ok, the index of
\* one of them is installed and the other's was dropped, a third thread was
\* answered from the installed index
C29_RaceLostAndObserved ==
    \E t1, t2, t3 \in Threads :
       /\ threads[t1].op = "load_index" /\ threads[t1].pc = "idle"
       /\ threads[t1].ret.kind = "ok" /\ threads[t1].local = INDEX
       /\ threads[t2].op = "load_index" /\ threads[t2].pc = "idle"
       /\ threads[t2].ret.kind = "ok" /\ threads[t2].local # INDEX
       /\ Answered(threads[t3]) /\ threads[t3].ret.kind = "ok"
       /\ threads[t3].seen = INDEX

----------------------------------------------------------------------------
(* Properties of the occurrence scan *)

\* the scan of the last call: the text that was scanned, its lowercased form
\* and the lowercased query, as bytes
ScannedTitle == call.op = "highlight_title" /\ call.title # <<>> /\ call.query # <<>>

ScanOf(title, query) ==
    [text |-> Bytes(title), lower |-> Bytes(ToLowercase(title)),
     q |-> Bytes(ToLowercase(query))]

StrictlyIncreasing(offsets) ==
    \A k \in 1..(Len(offsets) - 1) : offsets[k] < offsets[k + 1]

\* matches that are not empty, follow each other and do not overlap
InOrderApart(positions) ==
    /\ \A k \in DOMAIN positions : positions[k][1] < positions[k][2]
    /\ \A k \in 1..(Len(positions) - 1) : positions[k][2] <= positions[k + 1][1]

\* the bytes i..j of the text are whole characters that lowercase to q
FoldsTo(text, i, j, q) ==
    /\ IsCharBoundary(text, i) /\ IsCharBoundary(text, j)
    /\ Bytes(ToLowercase(Chars(SubSeq(text, i + 1, j)))) = q

\* every occurrence of the query in the text, in whatever case, is recorded,
\* but for those that begin inside a recorded match
AllRecorded(text, q, positions) ==
    \A i \in 0..Len(text), j \in 1..Len(text) :
       (i < j /\ FoldsTo(text, i, j, q))
          => \/ \E k \in DOMAIN positions : positions[k] = <<i, j>>
             \/ \E k \in DOMAIN positions : positions[k][1] < i /\ i < positions[k][2]

ScanHolds(s) ==
    /\ ~ScanMatches(s.text, s.lower, s.q, 0, <<>>).panic
    /\ StrictlyIncreasing(ScanOffsets(s.text, s.lower, s.q, 0))
    /\ InOrderApart(ScanMatches(s.text, s.lower, s.q, 0, <<>>).positions)
    /\ AllRecorded(s.text, s.q, ScanMatches(s.text, s.lower, s.q, 0, <<>>).positions)

\* C30: The occurrence scan over a title ends for every text and every
\* non-empty query without a panic: the scan offset grows at every iteration,
\* the recorded matches are not empty, in increasing order and do not overlap,
\* and every occurrence of the query in the text, in whatever case, that does
\* not begin inside a recorded match is recorded.
C30_ScanProgressAndComplete ==
    ScannedTitle => ScanHolds(ScanOf(call.title, call.query))

====
